---- MODULE Spec2Model ----
(***************************************************************************)
(* dazibao: a status page built from the output of shell commands and      *)
(* built-in variables, grouped in blocks.  The model covers main.go: the   *)
(* per-block schedulers (runBlock), the /data handler, the static page     *)
(* generation, the persisted configuration file and the command executor.  *)
(*                                                                         *)
(* Strings are TLA+ strings; times are integers (0 is Go's zero time).  A   *)
(* Go string is a string of bytes: a character of a model string is one    *)
(* byte, "ÿ" being the byte 0xFF and "ï¿½" the three bytes EF BF BD that    *)
(* encode U+FFFD.                                                          *)
(***************************************************************************)
EXTENDS Integers, Sequences, FiniteSets, TLC

(***************************************************************************)
(* Bounds of the model.                                                    *)
(***************************************************************************)
\* The clock readings are 0..MaxTime; a tick needs a fresh reading, so
\* MaxTime also bounds the number of ticks of a run.
MaxTime == 5
\* Number of /data requests that may be in flight in one run.
MaxRequests == 1
\* Number of page generations of the interval mode in one run.
MaxGenerations == 2
\* No configuration of the model has more blocks.
MaxBlocks == 3
\* Seconds of a run that follows the clock.
MaxClock == 3


VARIABLES
    flags,      \* command line: [d: dry run, t: interval seconds]
    version,    \* main.version, set by the linker (build.sh) or empty
    file,       \* ~/.dazibao/config.json: <<>> when absent, else <<document>>
    os,         \* the host: [assets, remove, bash, hostname, user, ip]
    now,        \* the latest reading of the clock (time.Now)
    mainPc,     \* position of main()
    spc,        \* position of saveConfigToFile
    lockPath,   \* ~/.dazibao/dazibao.lock: "absent", or whose it is
    lockFile,   \* the global lockFile is not nil
    sigPc,      \* position of the signal goroutine of startServer
    config,     \* the global Config (server mode)
    mutex,      \* holder of the global mutex, NoTask when free
    pc,         \* position of each runBlock goroutine
    idx,        \* runBlock: index i of the group command being executed
    local,      \* runBlock: `output, err` of the last executeCommandOrVariable
    hpc,        \* position of each dataHandler invocation
    response,   \* body written by each dataHandler invocation
    page,       \* what the page written by each rootHandler invocation embeds
    cfg,        \* generateAndUpdateStaticHTML: the local cfg
    gpc,        \* position of the static generation
    gblock,     \* generateAndUpdateStaticHTML: index of the block in the loop
    gidx,       \* generateAndUpdateStaticHTML: index i of the group command
    glocal,     \* generateAndUpdateStaticHTML: `output, err` of the last call
    html,       \* the page produced by the last static generation, <<>> if none
    gens,       \* number of generations started (interval mode)
    clock,      \* whole seconds elapsed since the process started
    ticker,     \* runBlock: the ticker of each block, see NewTicker
    prompt,     \* history: no second has passed while a goroutine could run
    tickNo,     \* history: number of ticks each block has started
    gen,        \* history: the tick that wrote each slot and stamp of a block
    respGen     \* history: gen as it was when the response was encoded

envVars == <<flags, version, os>>
serverVars == <<config, mutex, pc, idx, local, hpc, response, page>>
staticVars == <<cfg, gpc, gblock, gidx, glocal, html, gens>>
timeVars == <<clock, ticker, prompt>>
lockVars == <<spc, lockPath, lockFile, sigPc>>
histVars == <<tickNo, gen, respGen>>
vars == <<flags, version, file, os, now, mainPc, spc, lockPath, lockFile,
          sigPc, config, mutex, pc, idx,
          local, hpc, response, page, cfg, gpc, gblock, gidx, glocal, html,
          gens, clock, ticker, prompt, tickNo, gen, respGen>>

(***************************************************************************)
(* Strings.                                                                *)
(***************************************************************************)
Min(a, b) == IF a <= b THEN a ELSE b

\* unicode.IsSpace on the characters the commands of the model print.
IsSpace(c) == c \in {" ", "\t", "\n", "\r"}

RECURSIVE TrimLeft(_)
TrimLeft(s) ==
    IF Len(s) > 0 /\ IsSpace(Head(s)) THEN TrimLeft(Tail(s)) ELSE s

RECURSIVE TrimRight(_)
TrimRight(s) ==
    IF Len(s) > 0 /\ IsSpace(SubSeq(s, Len(s), Len(s)))
    THEN TrimRight(SubSeq(s, 1, Len(s) - 1))
    ELSE s

\* strings.TrimSpace
TrimSpace(s) == TrimRight(TrimLeft(s))

\* strings.HasPrefix
HasPrefix(s, p) == Len(s) >= Len(p) /\ SubSeq(s, 1, Len(p)) = p

\* The coercion of a string to valid UTF-8 that encoding/json applies to
\* every string it writes: each invalid byte becomes U+FFFD.  The bytes 0xFE
\* and 0xFF are part of no UTF-8 sequence; the other bytes of the strings
\* of the model form valid sequences.
RECURSIVE CoerceUTF8(_)
CoerceUTF8(s) ==
    IF Len(s) = 0 THEN s
    ELSE IF Head(s) \in {"þ", "ÿ"} THEN "ï¿½" \o CoerceUTF8(Tail(s))
    ELSE Head(s) \o CoerceUTF8(Tail(s))

Digit(n) == SubSeq("0123456789", n + 1, n + 1)
TwoDigits(n) == Digit((n \div 10) % 10) \o Digit(n % 10)

(***************************************************************************)
(* The command executor and the variable resolver.                         *)
(***************************************************************************)
\* A nil error.
Nil == ""

\* const appName
appName == "Dazibao"

\* time.Time.Format for the layouts resolveVariable uses.  A reading t is t
\* seconds after midnight of Thursday 2026-10-29 (readings stay within the
\* day).
Format(layout, t) ==
    CASE layout = "15:04:05" ->
            TwoDigits((t \div 3600) % 24) \o ":" \o TwoDigits((t \div 60) % 60)
                \o ":" \o TwoDigits(t % 60)
      [] layout = "2006-01-02" -> "2026-10-29"
      [] layout = "2006" -> "2026"
      [] layout = "01" -> "10"
      [] layout = "02" -> "29"
      [] layout = "Monday" -> "Thursday"
      [] layout = "15" -> TwoDigits((t \div 3600) % 24)
      [] layout = "04" -> TwoDigits((t \div 60) % 60)
      [] layout = "05" -> TwoDigits(t % 60)

\* resolveVariable: the string it returns for `variable` when the clock reads
\* t, the linker set main.version to ver and the host is h.  h.hostname and
\* h.user are the [val, err] of os.Hostname and user.Current; h.ip is the
\* [val, err] of net.InterfaceAddrs, val being the first non-loopback IPv4
\* address ("" when there is none).
resolveVariable(variable, t, ver, h) ==
    CASE variable = "%hostname" ->
            IF h.hostname.err # Nil THEN "Error: " \o h.hostname.err
            ELSE h.hostname.val
      [] variable = "%time" -> Format("15:04:05", t)
      [] variable = "%date" -> Format("2006-01-02", t)
      [] variable = "%year" -> Format("2006", t)
      [] variable = "%month" -> Format("01", t)
      [] variable = "%day" -> Format("02", t)
      [] variable = "%dayname" -> Format("Monday", t)
      [] variable = "%hours" -> Format("15", t)
      [] variable = "%minutes" -> Format("04", t)
      [] variable = "%seconds" -> Format("05", t)
      [] variable = "%username" ->
            IF h.user.err # Nil THEN "Error: " \o h.user.err ELSE h.user.val
      [] variable = "%ip_address" ->
            IF h.ip.err # Nil THEN "Error: " \o h.ip.err
            ELSE IF h.ip.val # "" THEN h.ip.val ELSE "N/A"
      [] variable = "%app_name" -> appName
      [] variable = "%app_version" -> ver
      [] OTHER -> "Unknown variable"

\* exec.Command("bash", "-c", cmdStr).CombinedOutput(): the set of [out, err]
\* it may return on host h.  Without bash the spawn fails; a command that
\* never terminates returns nothing.
Bash(cmdStr, h) ==
    IF ~h.bash
    THEN {[out |-> "", err |-> "exec: \"bash\": executable file not found in $PATH"]}
    ELSE CASE cmdStr = "echo hi" -> {[out |-> "hi\n", err |-> Nil]}
           [] cmdStr = "echo x" -> {[out |-> "x\n", err |-> Nil]}
           [] cmdStr = "echo" -> {[out |-> "\n", err |-> Nil]}
           [] cmdStr = "true" -> {[out |-> "", err |-> Nil]}
           [] cmdStr = "" -> {[out |-> "", err |-> Nil]}
           [] cmdStr = "false" -> {[out |-> "", err |-> "exit status 1"]}
           [] cmdStr = "uptime" ->
                {[out |-> " 10:00:00 up 1 day,  1 user\n", err |-> Nil]}
           [] cmdStr = "df -h" ->
                {[out |-> "Filesystem Size Used\n/dev/sda1 50G 20G\n", err |-> Nil]}
           [] cmdStr = "cat status" ->
                {[out |-> "ready\n", err |-> Nil],
                 [out |-> "cat: status: No such file or directory\n",
                  err |-> "exit status 1"]}
           [] cmdStr = "printf '\\377'" -> {[out |-> "ÿ", err |-> Nil]}
           [] cmdStr = "sleep infinity" -> {}
           [] HasPrefix(cmdStr, "%") ->
                {[out |-> "bash: line 1: fg: no job control\n",
                  err |-> "exit status 1"]}
           [] OTHER ->
                {[out |-> "bash: line 1: " \o cmdStr \o ": command not found\n",
                  err |-> "exit status 127"]}

\* An executor that returns the output of the shell untrimmed.
executeUntrimmed(cmdStr, t, ver, h) ==
    IF Len(cmdStr) > 1 /\ Head(cmdStr) = "%"
    THEN {[output |-> resolveVariable(cmdStr, t, ver, h), err |-> Nil,
           spawned |-> FALSE]}
    ELSE {IF r.err # Nil
          THEN [output |-> "", err |-> r.err, spawned |-> TRUE]
          ELSE [output |-> r.out, err |-> Nil, spawned |-> TRUE] :
            r \in Bash(cmdStr, h)}

\* An executor that resolves only the names resolveVariable knows and hands
\* every other string to the shell.
executeKnownOnly(cmdStr, t, ver, h) ==
    IF Len(cmdStr) > 1 /\ Head(cmdStr) = "%"
       /\ resolveVariable(cmdStr, t, ver, h) # "Unknown variable"
    THEN {[output |-> resolveVariable(cmdStr, t, ver, h), err |-> Nil,
           spawned |-> FALSE]}
    ELSE {IF r.err # Nil
          THEN [output |-> "", err |-> r.err, spawned |-> TRUE]
          ELSE [output |-> TrimSpace(r.out), err |-> Nil, spawned |-> TRUE] :
            r \in Bash(cmdStr, h)}

\* An executor that takes the lone "%" for a variable too.
executePercentAlone(cmdStr, t, ver, h) ==
    IF Len(cmdStr) >= 1 /\ Head(cmdStr) = "%"
    THEN {[output |-> resolveVariable(cmdStr, t, ver, h), err |-> Nil,
           spawned |-> FALSE]}
    ELSE {IF r.err # Nil
          THEN [output |-> "", err |-> r.err, spawned |-> TRUE]
          ELSE [output |-> TrimSpace(r.out), err |-> Nil, spawned |-> TRUE] :
            r \in Bash(cmdStr, h)}

\* executeCommandOrVariable: the set of (output, err) it may return; spawned
\* records whether exec.Command was reached.
executeCommandOrVariable(cmdStr, t, ver, h) ==
    IF Len(cmdStr) > 1 /\ Head(cmdStr) = "%"
    THEN {[output |-> resolveVariable(cmdStr, t, ver, h), err |-> Nil,
           spawned |-> FALSE]}
    ELSE {IF r.err # Nil
          THEN [output |-> "", err |-> r.err, spawned |-> TRUE]
          ELSE [output |-> TrimSpace(r.out), err |-> Nil, spawned |-> TRUE] :
            r \in Bash(cmdStr, h)}

\* The text runBlock and generateAndUpdateStaticHTML store for a result:
\* fmt.Sprintf("Error: %v", err) or the output.
SlotText(r) == IF r.err # Nil THEN "Error: " \o r.err ELSE r.output

(***************************************************************************)
(* The configuration tree and its JSON document.                           *)
(***************************************************************************)
\* The zero time.Time.
ZeroTime == 0

\* The port getFreshConfig sets when the document has none.
DefaultPort == 8080

\* A count of slots that takes a block of any other type for a group.
NSlotsAnyType(block) ==
    CASE block.type = "single" -> 1
      [] OTHER -> Len(block.commands)

\* The number of output slots of a block: the ones a tick of its type writes.
NSlots(block) ==
    CASE block.type = "single" -> 1
      [] block.type = "group" -> Len(block.commands)
      [] OTHER -> 0

\* A key of a JSON object that `omitempty` leaves out when the value is empty.
OmitEmpty(key, value, empty) ==
    IF value = empty THEN [k \in {} |-> value] ELSE [k \in {key} |-> value]

\* json.Marshal of a Command.  The outputs are what the commands printed,
\* any bytes; the other strings of a tree were read from a JSON document or
\* are literals of the program, valid UTF-8 that the coercion leaves as it
\* is.
MarshalCommand(c) ==
    [label |-> c.label, command |-> c.command,
     output |-> CoerceUTF8(c.output)]

\* json.Marshal of a Block: command, commands and output are omitempty.
MarshalBlock(b) ==
    [type |-> b.type, title |-> b.title, interval |-> b.interval,
     last_updated |-> b.last_updated, colors |-> b.colors]
    @@ OmitEmpty("command", b.command, "")
    @@ OmitEmpty("commands",
                 [i \in 1..Len(b.commands) |-> MarshalCommand(b.commands[i])],
                 <<>>)
    @@ OmitEmpty("output", CoerceUTF8(b.output), "")

\* json.Marshal of a Config.
Marshal(c) ==
    [blocks |-> [i \in 1..Len(c.blocks) |-> MarshalBlock(c.blocks[i])],
     last_updated |-> c.last_updated, port |-> c.port,
     version |-> c.version, colors |-> c.colors]

\* The value of a key of a JSON object, the zero value when it is missing.
Field(doc, key, zero) == IF key \in DOMAIN doc THEN doc[key] ELSE zero

UnmarshalCommand(d) ==
    [label |-> Field(d, "label", ""), command |-> Field(d, "command", ""),
     output |-> Field(d, "output", "")]

UnmarshalBlock(d) ==
    [type |-> Field(d, "type", ""), title |-> Field(d, "title", ""),
     command |-> Field(d, "command", ""),
     commands |-> LET cs == Field(d, "commands", <<>>)
                  IN  [i \in 1..Len(cs) |-> UnmarshalCommand(cs[i])],
     interval |-> Field(d, "interval", 0),
     output |-> Field(d, "output", ""),
     last_updated |-> Field(d, "last_updated", ZeroTime),
     colors |-> Field(d, "colors", "")]

\* json.Unmarshal into a zero Config, of a document in valid UTF-8.
Unmarshal(d) ==
    [blocks |-> LET bs == Field(d, "blocks", <<>>)
                IN  [i \in 1..Len(bs) |-> UnmarshalBlock(bs[i])],
     last_updated |-> Field(d, "last_updated", ZeroTime),
     port |-> Field(d, "port", 0),
     version |-> Field(d, "version", ""),
     colors |-> Field(d, "colors", "")]

\* The zero Config (var config Config).
ZeroConfig ==
    [blocks |-> <<>>, last_updated |-> ZeroTime, port |-> 0, version |-> "",
     colors |-> ""]

\* getFreshConfig: [cfg, err] for the file f (<<>> when there is none).  A
\* file that is not a JSON document of a Config is the record of the error
\* json.Unmarshal returns for it and of the Config it has decoded by then,
\* which is returned with the error, the default port not applied.
getFreshConfig(f) ==
    IF f = <<>>
    THEN [cfg |-> ZeroConfig,
          err |-> "failed to read config file: no such file or directory"]
    ELSE IF "invalid" \in DOMAIN f[1]
    THEN [cfg |-> f[1].decoded,
          err |-> "failed to unmarshal config: " \o f[1].invalid]
    ELSE LET c == Unmarshal(f[1])
         IN  [cfg |-> IF c.port = 0 THEN [c EXCEPT !.port = DefaultPort] ELSE c,
              err |-> Nil]

\* createDefaultConfig at clock reading t.
createDefaultConfig(t) ==
    [blocks |-> <<
        [type |-> "single", title |-> "Uptime", command |-> "uptime",
         commands |-> <<>>, interval |-> 5, output |-> "",
         last_updated |-> ZeroTime, colors |-> "#fff"],
        [type |-> "single", title |-> "Disk Usage", command |-> "df -h",
         commands |-> <<>>, interval |-> 10, output |-> "",
         last_updated |-> ZeroTime, colors |-> "#fff"],
        [type |-> "group", title |-> "System Info", command |-> "",
         commands |-> <<
            [label |-> "Hostname", command |-> "%hostname", output |-> ""],
            [label |-> "Current Time", command |-> "%time", output |-> ""],
            [label |-> "Current Date", command |-> "%date", output |-> ""],
            [label |-> "Username", command |-> "%username", output |-> ""],
            [label |-> "IP Address", command |-> "%ip_address", output |-> ""]>>,
         interval |-> 5, output |-> "", last_updated |-> ZeroTime,
         colors |-> "#f9f9f9"]>>,
     last_updated |-> t, port |-> DefaultPort, version |-> "",
     colors |-> "#f0f0f0"]

(***************************************************************************)
(* The inputs: command line, build, environment and configuration file.    *)
(***************************************************************************)
\* Timestamps a configuration file may hold: none, one earlier than the
\* start of the process, one later than every reading of the run (a file
\* written under a clock that was ahead).
PastTime == ZeroTime + 1
StartTime == PastTime + 1
FutureTime == MaxTime + 1
FileTimes == {ZeroTime, PastTime, FutureTime}

\* What an output of a file holds: nothing in a hand-written file (no
\* timestamp), the text of an earlier run otherwise.
OldOutput(lu) == IF lu = ZeroTime THEN "" ELSE "old"

Single(cmd, lu) ==
    [type |-> "single", title |-> "One", command |-> cmd, commands |-> <<>>,
     interval |-> 5, output |-> OldOutput(lu), last_updated |-> lu,
     colors |-> "#fff"]

Group(labels, cmds, lu) ==
    [type |-> "group", title |-> "Many", command |-> "",
     commands |-> [i \in 1..Len(cmds) |->
                    [label |-> labels[i], command |-> cmds[i],
                     output |-> OldOutput(lu)]],
     interval |-> 1, output |-> "", last_updated |-> lu, colors |-> "#eee"]

\* The command strings of the single-block configurations.
CmdUniverse ==
    {"echo hi", "echo", "true", "", "false", "cat status", "nosuchcmd",
     "printf '\\377'",
     "sleep infinity", "%", "%%", "%bogus", "%hostname", "%time", "%date",
     "%year", "%month", "%day", "%dayname", "%hours", "%minutes", "%seconds",
     "%username", "%ip_address", "%app_name", "%app_version"}

\* The configuration files: none, or the document of a tree.  A hand-written
\* file (no timestamp) has no port.
FileOf(bl, lu) ==
    <<Marshal([blocks |-> bl, last_updated |-> lu,
               port |-> IF lu = ZeroTime THEN 0 ELSE 9090,
               version |-> "", colors |-> "#f0f0f0"])>>

\* Files json.Unmarshal rejects, with what it leaves in the Config it was
\* given: a truncated document, rejected before anything is decoded, and a
\* document of one block whose interval is written as a string, where the
\* field is skipped and the rest is decoded.
BadFiles ==
    {<<[invalid |-> "unexpected end of JSON input", decoded |-> ZeroConfig]>>,
     <<[invalid |-> "json: cannot unmarshal string into Go struct field Block.blocks.interval of type int",
        decoded |-> Unmarshal(FileOf(<<[Single("echo hi", ZeroTime)
                                          EXCEPT !.interval = 0]>>,
                                     ZeroTime)[1])]>>}

\* Files whose block holds the fields of both types: a `single` block with
\* a command list, a `group` block with a command and an output.
MixedFiles ==
    {FileOf(<<[Single("echo hi", PastTime) EXCEPT
                 !.commands = <<[label |-> "L", command |-> "echo x",
                                 output |-> "old"]>>]>>, PastTime),
     FileOf(<<[Group(<<"A">>, <<"true">>, PastTime) EXCEPT
                 !.command = "echo hi", !.output = "old"]>>, PastTime)}

\* A file whose block has a type that is neither "single" nor "group", with
\* a command, a command list and outputs of an earlier run.
UntypedFiles ==
    {FileOf(<<[Single("echo hi", PastTime) EXCEPT
                 !.type = "table",
                 !.commands = <<[label |-> "L", command |-> "echo x",
                                 output |-> "old"]>>]>>, PastTime)}

\* Files whose block has no usable interval: a hand-written file without the
\* "interval" key (Block.Interval is 0 after json.Unmarshal), and a file of
\* two blocks whose second interval is negative.
NoIntervalFiles ==
    {FileOf(<<[Single("echo hi", ZeroTime) EXCEPT !.interval = 0]>>, ZeroTime),
     FileOf(<<Single("echo hi", PastTime),
              [Single("cat status", PastTime) EXCEPT !.interval = -1]>>,
            PastTime)}

InputFiles ==
    {<<>>}
    \cup BadFiles
    \cup MixedFiles
    \cup UntypedFiles
    \cup NoIntervalFiles
    \cup {FileOf(<<Single(c, ZeroTime)>>, ZeroTime) : c \in CmdUniverse}
    \cup {FileOf(<<Single("echo hi", lu)>>, lu) : lu \in FileTimes}
    \cup {FileOf(<<Single("echo hi", PastTime),
                   Group(<<"A", "B", "C">>,
                         <<"false", "cat status", "%bogus">>, PastTime)>>,
                 PastTime),
          FileOf(<<Single("sleep infinity", PastTime),
                   Single("cat status", PastTime)>>, PastTime)}

InputFlags ==
    {[d |-> FALSE, t |-> 0], [d |-> TRUE, t |-> 0], [d |-> FALSE, t |-> 1],
     [d |-> TRUE, t |-> 1]}

\* The builds and hosts: a linked version on a healthy host, a plain
\* `go build` (no version) on a host without network, and a host where bash
\* and the queries of the operating system fail.
LinkedHost ==
    [version |-> "0.42-abc1234",
     os |-> [assets |-> Nil, remove |-> Nil, bash |-> TRUE,
             hostname |-> [val |-> "dazihost", err |-> Nil],
             user |-> [val |-> "jpl", err |-> Nil],
             ip |-> [val |-> "192.168.1.10", err |-> Nil]]]

PlainHost ==
    [version |-> "",
     os |-> [assets |-> Nil, remove |-> Nil, bash |-> TRUE,
             hostname |-> [val |-> "dazihost", err |-> Nil],
             user |-> [val |-> "jpl", err |-> Nil],
             ip |-> [val |-> "", err |-> Nil]]]

BrokenHost ==
    [version |-> "0.42-abc1234",
     os |-> [assets |-> Nil, remove |-> Nil, bash |-> FALSE,
             hostname |-> [val |-> "", err |-> "hostname: not available"],
             user |-> [val |-> "", err |-> "user: Current requires cgo"],
             ip |-> [val |-> "", err |-> "route ip+net: netlinkrib: denied"]]]

\* Hosts where ensureAssets fails: os.UserHomeDir finds no $HOME, or
\* os.MkdirAll cannot create ~/.dazibao.
NoHomeHost ==
    [LinkedHost EXCEPT !.os.assets = "$HOME is not defined"]

NoDirHost ==
    [LinkedHost EXCEPT
        !.os.assets = "mkdir /home/jpl/.dazibao: permission denied"]

\* A host where os.Remove of the lock file fails when the server stops: the
\* file was made immutable, or its directory read-only, after the start.
NoRemoveHost ==
    [LinkedHost EXCEPT
        !.os.remove = "remove /home/jpl/.dazibao/dazibao.lock: operation not permitted"]

InputHosts == {LinkedHost, PlainHost, BrokenHost}

\* The hosts a configuration file is tried on: the hosts where the commands
\* fail for a file of one block, the hosts where ensureAssets fails for a
\* first start (no file), the host where the lock file cannot be removed
\* for the file of one `echo hi`, the healthy one for all.
HostsFor(f) ==
    IF f = <<>> THEN {LinkedHost, NoHomeHost, NoDirHost}
    ELSE IF f \in BadFiles \cup MixedFiles \cup UntypedFiles
                 \cup NoIntervalFiles THEN {LinkedHost}
    ELSE IF f = FileOf(<<Single("echo hi", ZeroTime)>>, ZeroTime)
         THEN InputHosts \cup {NoRemoveHost}
    ELSE IF Len(f[1].blocks) = 1 THEN InputHosts
    ELSE {LinkedHost}

(***************************************************************************)
(* Tasks, positions and the operations on a tree shared by runBlock and    *)
(* generateAndUpdateStaticHTML.                                            *)
(***************************************************************************)
NoTask == [kind |-> "none", id |-> 0]
SaverTask == [kind |-> "saveConfigToFile", id |-> 0]
BlockTask(b) == [kind |-> "runBlock", id |-> b]
HandlerTask(h) == [kind |-> "dataHandler", id |-> h]

\* The blocks of the configuration, and those whose goroutine has started.
AllBlocks == 1..Len(config.blocks)
Blocks == DOMAIN pc
Handlers == 1..MaxRequests

\* `output, err` before any call.
NoResult == [output |-> "", err |-> Nil, spawned |-> FALSE]

\* The command string of slot i of a block.
CommandOf(block, i) ==
    IF block.type = "single" THEN block.command ELSE block.commands[i].command

\* The output of slot i of a block.
OutputOf(block, i) ==
    IF block.type = "single" THEN block.output ELSE block.commands[i].output

\* A store that always writes the first slot of a group.
SetOutputFirst(tree, b, i, text) ==
    IF tree.blocks[b].type = "single"
    THEN [tree EXCEPT !.blocks[b].output = text]
    ELSE [tree EXCEPT !.blocks[b].commands[1].output = text]

\* block.Output = text, or block.Commands[i].Output = text.
SetOutput(tree, b, i, text) ==
    IF tree.blocks[b].type = "single"
    THEN [tree EXCEPT !.blocks[b].output = text]
    ELSE [tree EXCEPT !.blocks[b].commands[i].output = text]

\* The last reading of the clock the model follows: MaxTime, and the
\* readings of the ticks of every further second (two readings a tick).
Horizon == MaxTime + 2 * MaxBlocks * clock

\* The readings time.Now may return when the clock was last read at
\* `after`: not earlier, and no later than the bound of the model.
TimeNow(after) == {t \in after..Horizon : t <= after + 1}

\* A ticker that was not created yet.
NoTicker == [next |-> 0, c |-> 0]

\* The process before main runs.
Boot ==
    /\ now = StartTime
    /\ clock = 0
    /\ ticker = <<>>
    /\ prompt = TRUE
    /\ spc = "idle"
    /\ lockFile = FALSE
    /\ sigPc = "none"
    /\ mainPc = "start"
    /\ config = ZeroConfig
    /\ mutex = NoTask
    /\ pc = <<>>
    /\ idx = <<>>
    /\ local = <<>>
    /\ hpc = [h \in Handlers |-> "idle"]
    /\ response = [h \in Handlers |-> <<>>]
    /\ page = [h \in Handlers |-> <<>>]
    /\ cfg = ZeroConfig
    /\ gpc = "idle"
    /\ gblock = 0
    /\ gidx = 0
    /\ glocal = NoResult
    /\ html = <<>>
    /\ gens = 0
    /\ tickNo = <<>>
    /\ gen = <<>>
    /\ respGen = [h \in Handlers |-> <<>>]

Init ==
    /\ flags \in InputFlags
    /\ file \in InputFiles
    /\ \E host \in HostsFor(file) : version = host.version /\ os = host.os
    /\ lockPath \in {"absent", "other"}
    /\ Boot

(***************************************************************************)
(* main and startServer.                                                   *)
(***************************************************************************)
\* main: ensureAssets, then the mode the flags select.  log.Fatalf when the
\* home directory cannot be resolved or ~/.dazibao cannot be created.
\* executeIntervalGeneration creates its ticker, the only ticker of the
\* process, and runs a generation at once.
Main ==
    /\ mainPc = "start"
    /\ IF os.assets # Nil
       THEN /\ mainPc' = "fatal"
            /\ UNCHANGED <<gpc, gens, ticker>>
       ELSE IF flags.d
       THEN /\ mainPc' = "dryrun"
            /\ gpc' = "load"
            /\ gens' = 1
            /\ ticker' = ticker
       ELSE IF flags.t > 0
       THEN /\ mainPc' = "interval"
            /\ ticker' = <<[next |-> clock + flags.t, c |-> 0]>>
            /\ gpc' = "load"
            /\ gens' = 1
       ELSE /\ mainPc' = "loadConfig"
            /\ UNCHANGED <<gpc, gens, ticker>>
    /\ UNCHANGED <<envVars, lockVars, clock, prompt, file, now, serverVars,
                   cfg, gblock, gidx, glocal, html, histVars>>

\* A loadConfig that goes on with the zero Config when the file cannot be
\* parsed.
LoadConfigLenient ==
    /\ mainPc = "loadConfig"
    /\ LET r == getFreshConfig(file)
       IN  IF file = <<>>
           THEN /\ config' = createDefaultConfig(now)
                /\ mainPc' = "saveDefault"
           ELSE /\ config' = r.cfg
                /\ mainPc' = "acquireLock"
    /\ UNCHANGED <<envVars, lockVars, timeVars, file, now, mutex, pc, idx,
                   local, hpc, response, page, staticVars, histVars>>

\* loadConfig.  Without a file the default configuration is made and then
\* saved; log.Fatalf on any other error of getFreshConfig.
LoadConfig ==
    /\ mainPc = "loadConfig"
    /\ LET r == getFreshConfig(file)
       IN  IF r.err = Nil
           THEN /\ config' = r.cfg
                /\ mainPc' = "acquireLock"
           ELSE IF file = <<>>
           THEN /\ config' = createDefaultConfig(now)
                /\ mainPc' = "saveDefault"
           ELSE /\ config' = config
                /\ mainPc' = "fatal"
    /\ UNCHANGED <<envVars, lockVars, timeVars, file, now, mutex, pc, idx,
                   local, hpc, response, page, staticVars, histVars>>

(***************************************************************************)
(* saveConfigToFile, called by loadConfig for the default configuration    *)
(* and by generateAndUpdateStaticHTML.                                     *)
(***************************************************************************)
\* How a generation that returned an error ends: log.Fatalf in a dry run, a
\* log line in the interval mode.
GenFailed ==
    /\ gpc' = IF flags.d THEN "idle" ELSE "sleep"
    /\ mainPc' = IF flags.d THEN "fatal" ELSE mainPc

\* mutex.Lock()
SaveLock ==
    /\ spc = "idle"
    /\ mainPc = "saveDefault" \/ gpc = "save"
    /\ mutex = NoTask
    /\ mutex' = SaverTask
    /\ spc' = "write"
    /\ UNCHANGED <<envVars, lockPath, lockFile, sigPc, timeVars, file, now, mainPc,
                   config, pc, idx, local, hpc, response, page, staticVars,
                   histVars>>

\* json.MarshalIndent(cfg) and os.WriteFile: the file is overwritten, or the
\* write fails.
SaveWrite ==
    /\ spc = "write"
    /\ \E written \in BOOLEAN :
          IF written
          THEN /\ file' = <<Marshal(IF mainPc = "saveDefault" THEN config
                                    ELSE cfg)>>
               /\ spc' = "written"
          ELSE /\ file' = file
               /\ spc' = "failed"
    /\ UNCHANGED <<envVars, lockPath, lockFile, sigPc, timeVars, now, mainPc,
                   serverVars, staticVars, histVars>>

\* The deferred mutex.Unlock() and the return to the caller: loadConfig
\* ends in log.Fatalf when the save failed, generateAndUpdateStaticHTML
\* returns the error without a page.
SaveUnlock ==
    /\ spc \in {"written", "failed"}
    /\ mutex' = NoTask
    /\ spc' = "idle"
    /\ IF mainPc = "saveDefault"
       THEN /\ mainPc' = IF spc = "written" THEN "acquireLock" ELSE "fatal"
            /\ gpc' = gpc
       ELSE IF spc = "written"
       THEN /\ gpc' = "html"
            /\ mainPc' = mainPc
       ELSE GenFailed
    /\ UNCHANGED <<envVars, lockPath, lockFile, sigPc, timeVars, file, now, config,
                   pc, idx, local, hpc, response, page, cfg, gblock, gidx,
                   glocal, html, gens, histVars>>

(***************************************************************************)
(* startServer.                                                            *)
(***************************************************************************)
\* config.Version = version, then acquireLock: the lock file is created
\* with O_EXCL; log.Fatalf when it exists.
AcquireLock ==
    /\ mainPc = "acquireLock"
    /\ config' = [config EXCEPT !.version = version]
    /\ IF lockPath = "absent"
       THEN /\ lockPath' = "own"
            /\ lockFile' = TRUE
            /\ mainPc' = "notify"
       ELSE /\ mainPc' = "fatal"
            /\ UNCHANGED <<lockPath, lockFile>>
    /\ UNCHANGED <<envVars, spc, sigPc, timeVars, file, now, mutex, pc, idx,
                   local, hpc, response, page, staticVars, histVars>>

\* signal.Notify(signals, SIGINT, SIGTERM) and the goroutine that waits for
\* a signal.
Notify ==
    /\ mainPc = "notify"
    /\ mainPc' = "startServer"
    /\ sigPc' = "wait"
    /\ UNCHANGED <<envVars, spc, lockPath, lockFile, timeVars, file, now,
                   serverVars, staticVars, histVars>>

\* The process is gone: its memory, its goroutines and its connections.
Gone ==
    /\ config' = ZeroConfig
    /\ mutex' = NoTask
    /\ spc' = "idle"
    /\ lockFile' = FALSE
    /\ sigPc' = "none"
    /\ pc' = <<>>
    /\ idx' = <<>>
    /\ local' = <<>>
    /\ ticker' = <<>>
    /\ hpc' = [h \in Handlers |-> "idle"]
    /\ response' = [h \in Handlers |-> <<>>]
    /\ page' = [h \in Handlers |-> <<>>]
    /\ tickNo' = <<>>
    /\ gen' = <<>>
    /\ respGen' = [h \in Handlers |-> <<>>]

\* SIGINT or SIGTERM before signal.Notify: the signal has its default
\* action and the process dies where it is.
Kill ==
    /\ mainPc \in {"loadConfig", "saveDefault", "acquireLock", "notify"}
    /\ mainPc' = "killed"
    /\ Gone
    /\ UNCHANGED <<envVars, lockPath, clock, prompt, file, now, staticVars>>

\* A signal goroutine that goes on to os.Exit without releaseLock.
ReleaseLockSkipped ==
    /\ sigPc = "wait"
    /\ sigPc' = "exit"
    /\ UNCHANGED <<envVars, spc, lockPath, lockFile, timeVars, file, now,
                   mainPc, serverVars, staticVars, histVars>>

\* SIGINT or SIGTERM after signal.Notify: the goroutine receives the signal
\* and calls releaseLock, which, when lockFile is not nil, closes the lock
\* file and calls os.Remove: the file is gone, or os.Remove fails, a warning
\* is logged and the file stays.  The goroutine holds no mutex: main, the
\* schedulers and the handlers go on until it reaches os.Exit.
ReleaseLock ==
    /\ sigPc = "wait"
    /\ sigPc' = "exit"
    /\ lockPath' = IF lockFile /\ os.remove = Nil THEN "absent" ELSE lockPath
    /\ UNCHANGED <<envVars, spc, lockFile, timeVars, file, now, mainPc,
                   serverVars, staticVars, histVars>>

\* os.Exit(0) of the signal goroutine, after releaseLock.
Terminate ==
    /\ sigPc = "exit"
    /\ mainPc' = "exited"
    /\ Gone
    /\ UNCHANGED <<envVars, lockPath, clock, prompt, file, now, staticVars>>

\* startServer: `go runBlock(block)` for every block, then the HTTP server.
StartSchedulers ==
    /\ mainPc = "startServer"
    /\ mainPc' = "serving"
    /\ pc' = [b \in AllBlocks |-> "start"]
    /\ ticker' = [b \in AllBlocks |-> NoTicker]
    /\ idx' = [b \in AllBlocks |-> 0]
    /\ local' = [b \in AllBlocks |-> NoResult]
    /\ tickNo' = [b \in AllBlocks |-> 0]
    /\ gen' = [b \in AllBlocks |->
                [slots |-> [i \in 1..NSlots(config.blocks[b]) |-> 0],
                 stamp |-> 0]]
    /\ UNCHANGED <<envVars, lockVars, clock, prompt, file, now, config,
                   mutex, hpc, response, page, staticVars, respGen>>

\* startServer: http.ListenAndServe is called after the schedulers are
\* started and returns an error, at once (the port is in use) or later (the
\* listener fails): log.Fatal exits, the deferred releaseLock does not run
\* and the goroutines end with the process, wherever they are in their tick.
ListenFailed ==
    /\ mainPc = "serving"
    /\ mainPc' = "fatal"
    /\ Gone
    /\ UNCHANGED <<envVars, lockPath, clock, prompt, file, now, staticVars>>

(***************************************************************************)
(* runBlock: one goroutine per block.                                      *)
(***************************************************************************)
\* ticker := time.NewTicker(block.Interval seconds): the ticker fires every
\* interval from now on and its channel holds one tick at most.  NewTicker
\* panics when the interval is not positive: the panic of a goroutine ends
\* the process before the first mutex.Lock, the deferred releaseLock of
\* startServer does not run and the lock file stays.
NewTicker(b) ==
    /\ pc[b] = "start"
    /\ IF config.blocks[b].interval <= 0
       THEN /\ mainPc' = "panic"
            /\ Gone
            /\ UNCHANGED <<envVars, lockPath, clock, prompt, file, now,
                           staticVars>>
       ELSE /\ ticker' = [ticker EXCEPT ![b] =
                            [next |-> clock + config.blocks[b].interval,
                             c |-> 0]]
            /\ pc' = [pc EXCEPT ![b] = "lock"]
            /\ UNCHANGED <<envVars, lockVars, clock, prompt, file, now, mainPc,
                           config, mutex, idx, local, hpc, response, page,
                           staticVars, histVars>>

\* A scheduler that enters its tick without waiting for the mutex.
LockUnguarded(b) ==
    /\ pc[b] = "lock"
    /\ now < Horizon
    /\ mutex' = BlockTask(b)
    /\ pc' = [pc EXCEPT ![b] = IF NSlots(config.blocks[b]) > 0
                               THEN "exec" ELSE "stamp"]
    /\ idx' = [idx EXCEPT ![b] = 1]
    /\ tickNo' = [tickNo EXCEPT ![b] = @ + 1]
    /\ UNCHANGED <<envVars, lockVars, timeVars, file, now, mainPc, config, local, hpc,
                   response, page, staticVars, gen, respGen>>

\* mutex.Lock() at the top of the loop body, then the switch on block.Type.
Lock(b) ==
    /\ pc[b] = "lock"
    /\ mutex = NoTask
    /\ now < Horizon
    /\ mutex' = BlockTask(b)
    /\ pc' = [pc EXCEPT ![b] = IF NSlots(config.blocks[b]) > 0
                               THEN "exec" ELSE "stamp"]
    /\ idx' = [idx EXCEPT ![b] = 1]
    /\ tickNo' = [tickNo EXCEPT ![b] = @ + 1]
    /\ UNCHANGED <<envVars, lockVars, timeVars, file, now, mainPc, config, local, hpc,
                   response, page, staticVars, gen, respGen>>

\* A tick that gives up the remaining commands of a group when one fails.
ExecAbortOnError(b) ==
    /\ pc[b] = "exec"
    /\ LET block == config.blocks[b]
           i == idx[b]
       IN  \E r \in executeCommandOrVariable(CommandOf(block, i), now, version,
                                             os) :
              /\ local' = [local EXCEPT ![b] = r]
              /\ config' = SetOutput(config, b, i, SlotText(r))
              /\ gen' = [gen EXCEPT ![b].slots[i] = tickNo[b]]
              /\ idx' = [idx EXCEPT ![b] = i + 1]
              /\ pc' = [pc EXCEPT ![b] = IF i < NSlots(block) /\ r.err = Nil
                                         THEN "exec" ELSE "stamp"]
    /\ UNCHANGED <<envVars, lockVars, timeVars, file, now, mainPc, mutex, hpc, response, page,
                   staticVars, tickNo, respGen>>

\* The command of slot idx[b] returns and its result is stored in the slot.
Exec(b) ==
    /\ pc[b] = "exec"
    /\ LET block == config.blocks[b]
           i == idx[b]
       IN  \E r \in executeCommandOrVariable(CommandOf(block, i), now, version,
                                             os) :
              /\ local' = [local EXCEPT ![b] = r]
              /\ config' = SetOutput(config, b, i, SlotText(r))
              /\ gen' = [gen EXCEPT ![b].slots[i] = tickNo[b]]
              /\ idx' = [idx EXCEPT ![b] = i + 1]
              /\ pc' = [pc EXCEPT ![b] = IF i < NSlots(block)
                                         THEN "exec" ELSE "stamp"]
    /\ UNCHANGED <<envVars, lockVars, timeVars, file, now, mainPc, mutex, hpc, response, page,
                   staticVars, tickNo, respGen>>

\* A tick that stamps every block of the tree.
StampEvery(b) ==
    /\ pc[b] = "stamp"
    /\ \E t1 \in TimeNow(now + 1) : \E t2 \in TimeNow(t1) :
          /\ config' = [config EXCEPT
                          !.blocks = [o \in DOMAIN @ |->
                                        [@[o] EXCEPT !.last_updated = t1]],
                          !.last_updated = t2]
          /\ now' = t2
    /\ gen' = [gen EXCEPT ![b].stamp = tickNo[b]]
    /\ pc' = [pc EXCEPT ![b] = "unlock"]
    /\ UNCHANGED <<envVars, lockVars, timeVars, file, mainPc, mutex, idx, local, hpc,
                   response, page, staticVars, tickNo, respGen>>

\* block.LastUpdated = time.Now(); config.LastUpdated = time.Now().  The tick
\* took time: the first reading is later than the one before the tick.
Stamp(b) ==
    /\ pc[b] = "stamp"
    /\ \E t1 \in TimeNow(now + 1) : \E t2 \in TimeNow(t1) :
          /\ config' = [config EXCEPT !.blocks[b].last_updated = t1,
                                      !.last_updated = t2]
          /\ now' = t2
    /\ gen' = [gen EXCEPT ![b].stamp = tickNo[b]]
    /\ pc' = [pc EXCEPT ![b] = "unlock"]
    /\ UNCHANGED <<envVars, lockVars, timeVars, file, mainPc, mutex, idx, local, hpc,
                   response, page, staticVars, tickNo, respGen>>

\* A tick that ends without releasing the mutex.
UnlockKept(b) ==
    /\ pc[b] = "unlock"
    /\ pc' = [pc EXCEPT ![b] = "wait"]
    /\ UNCHANGED <<envVars, lockVars, timeVars, file, now, mainPc, config, mutex, idx, local,
                   hpc, response, page, staticVars, histVars>>

\* mutex.Unlock() at the end of the loop body.
Unlock(b) ==
    /\ pc[b] = "unlock"
    /\ mutex' = NoTask
    /\ pc' = [pc EXCEPT ![b] = "wait"]
    /\ UNCHANGED <<envVars, lockVars, timeVars, file, now, mainPc, config, idx, local,
                   hpc, response, page, staticVars, histVars>>

\* <-ticker.C, a run that does not follow the clock: the ticker has fired.
Wait(b) ==
    /\ pc[b] = "wait"
    /\ pc' = [pc EXCEPT ![b] = "lock"]
    /\ UNCHANGED <<envVars, lockVars, timeVars, file, now, mainPc, config, mutex, idx, local, hpc,
                   response, page, staticVars, histVars>>

(***************************************************************************)
(* dataHandler: one invocation per /data request.                          *)
(***************************************************************************)
\* A /data request arrives.
Request(h) ==
    /\ mainPc = "serving"
    /\ hpc[h] \in {"idle", "done"}
    /\ hpc' = [hpc EXCEPT ![h] = "lock"]
    /\ response' = [response EXCEPT ![h] = <<>>]
    /\ page' = [page EXCEPT ![h] = <<>>]
    /\ respGen' = [respGen EXCEPT ![h] = <<>>]
    /\ UNCHANGED <<envVars, lockVars, timeVars, file, now, mainPc, config, mutex, pc, idx, local, staticVars, tickNo, gen>>

\* A dataHandler that encodes without taking the mutex.
DataLockSkipped(h) ==
    /\ hpc[h] = "lock"
    /\ hpc' = [hpc EXCEPT ![h] = "encode"]
    /\ UNCHANGED <<envVars, lockVars, timeVars, file, now, mainPc, config, mutex, pc, idx, local,
                   response, page, staticVars, histVars>>

\* mutex.Lock()
DataLock(h) ==
    /\ hpc[h] = "lock"
    /\ mutex = NoTask
    /\ mutex' = HandlerTask(h)
    /\ hpc' = [hpc EXCEPT ![h] = "encode"]
    /\ UNCHANGED <<envVars, lockVars, timeVars, file, now, mainPc, config, pc, idx, local, response, page, staticVars, histVars>>

\* json.NewEncoder(w).Encode(config)
DataEncode(h) ==
    /\ hpc[h] = "encode"
    /\ response' = [response EXCEPT ![h] = <<Marshal(config)>>]
    /\ respGen' = [respGen EXCEPT ![h] = gen]
    /\ hpc' = [hpc EXCEPT ![h] = "unlock"]
    /\ UNCHANGED <<envVars, lockVars, timeVars, file, now, mainPc, config, mutex, pc,
                   idx, local, page, staticVars, tickNo, gen>>

\* A dataHandler that returns without releasing the mutex.
DataUnlockKept(h) ==
    /\ hpc[h] = "unlock"
    /\ hpc' = [hpc EXCEPT ![h] = "done"]
    /\ UNCHANGED <<envVars, lockVars, timeVars, file, now, mainPc, config, mutex, pc, idx, local, response, page, staticVars, histVars>>

\* The deferred mutex.Unlock()
DataUnlock(h) ==
    /\ hpc[h] = "unlock"
    /\ mutex' = NoTask
    /\ hpc' = [hpc EXCEPT ![h] = "done"]
    /\ UNCHANGED <<envVars, lockVars, timeVars, file, now, mainPc, config, pc, idx, local, response, page, staticVars, histVars>>

(***************************************************************************)
(* rootHandler: one invocation per request of the page.                    *)
(***************************************************************************)
\* The JSON value null, and the value that is the document of a tree, as a
\* page embeds them.
JSONNull == <<>>
JSONOf(tree) == <<Marshal(tree)>>

\* rootHandler: generateDynamicHTML executes the template with
\* ConfigJSON: template.JS("null") and the page is written.  It takes no
\* mutex and does not read the configuration.
RootHandler(h) ==
    /\ mainPc = "serving"
    /\ hpc[h] \in {"idle", "done"}
    /\ page' = [page EXCEPT ![h] = <<JSONNull>>]
    /\ response' = [response EXCEPT ![h] = <<>>]
    /\ respGen' = [respGen EXCEPT ![h] = <<>>]
    /\ hpc' = [hpc EXCEPT ![h] = "done"]
    /\ UNCHANGED <<envVars, lockVars, timeVars, file, now, mainPc, config, mutex, pc,
                   idx, local, staticVars, tickNo, gen>>

NextServer ==
    \/ LoadConfig
    \/ AcquireLock
    \/ Notify
    \/ StartSchedulers
    \/ ListenFailed
    \/ Kill
    \/ ReleaseLock
    \/ Terminate
    \/ \E b \in Blocks : NewTicker(b)
    \/ \E b \in Blocks : Lock(b)
    \/ \E b \in Blocks : Exec(b)
    \/ \E b \in Blocks : Stamp(b)
    \/ \E b \in Blocks : Unlock(b)
    \/ \E b \in Blocks : Wait(b)
    \/ \E h \in Handlers : Request(h)
    \/ \E h \in Handlers : DataLock(h)
    \/ \E h \in Handlers : DataEncode(h)
    \/ \E h \in Handlers : DataUnlock(h)
    \/ \E h \in Handlers : RootHandler(h)

(***************************************************************************)
(* generateAndUpdateStaticHTML: the dry run and the interval generation.   *)
(***************************************************************************)
\* The position of the loop over cfg.Blocks when it reaches block k.
LoopAt(tree, k) ==
    IF k > Len(tree.blocks) THEN "stampAll"
    ELSE IF NSlots(tree.blocks[k]) > 0 THEN "exec" ELSE "stamp"

\* cfg, err := getFreshConfig(); cfg.Version = version
GenLoad ==
    /\ gpc = "load"
    /\ now < Horizon
    /\ LET r == getFreshConfig(file)
       IN  IF r.err # Nil
           THEN /\ GenFailed
                /\ UNCHANGED <<cfg, gblock, gidx>>
           ELSE /\ cfg' = [r.cfg EXCEPT !.version = version]
                /\ gblock' = 1
                /\ gidx' = 1
                /\ gpc' = LoopAt(r.cfg, 1)
                /\ mainPc' = mainPc
    /\ UNCHANGED <<envVars, lockVars, timeVars, file, now, serverVars, glocal, html, gens,
                   histVars>>

\* The command of slot gidx of block gblock returns and its result is stored.
GenExec ==
    /\ gpc = "exec"
    /\ LET block == cfg.blocks[gblock]
       IN  \E r \in executeCommandOrVariable(CommandOf(block, gidx), now,
                                             version, os) :
              /\ glocal' = r
              /\ cfg' = SetOutput(cfg, gblock, gidx, SlotText(r))
              /\ gidx' = gidx + 1
              /\ gpc' = IF gidx < NSlots(block) THEN "exec" ELSE "stamp"
    /\ UNCHANGED <<envVars, lockVars, timeVars, file, now, mainPc, serverVars, gblock, html, gens,
                   histVars>>

\* block.LastUpdated = time.Now(), then the next block of the loop.
GenStamp ==
    /\ gpc = "stamp"
    /\ \E t \in TimeNow(IF gblock = 1 THEN now + 1 ELSE now) :
          /\ cfg' = [cfg EXCEPT !.blocks[gblock].last_updated = t]
          /\ now' = t
    /\ gblock' = gblock + 1
    /\ gidx' = 1
    /\ gpc' = LoopAt(cfg, gblock + 1)
    /\ UNCHANGED <<envVars, lockVars, timeVars, file, mainPc, serverVars, glocal, html, gens,
                   histVars>>

\* cfg.LastUpdated = time.Now()
GenStampAll ==
    /\ gpc = "stampAll"
    /\ \E t \in TimeNow(now) :
          /\ cfg' = [cfg EXCEPT !.last_updated = t]
          /\ now' = t
    /\ gpc' = "save"
    /\ UNCHANGED <<envVars, lockVars, timeVars, file, mainPc, serverVars, gblock, gidx, glocal,
                   html, gens, histVars>>

\* return generateHTML(cfg): the page embeds json.Marshal(cfg), ConfigJSON:
\* template.JS(configJSON).  The dry run
\* prints it and exits; the interval mode writes it and waits for its ticker.
GenHTML ==
    /\ gpc = "html"
    /\ html' = <<Marshal(cfg)>>
    /\ gpc' = IF flags.d THEN "idle" ELSE "sleep"
    /\ mainPc' = IF flags.d THEN "exited" ELSE mainPc
    /\ UNCHANGED <<envVars, lockVars, timeVars, file, now, serverVars, cfg, gblock, gidx, glocal,
                   gens, histVars>>

\* executeIntervalGeneration: <-ticker.C, then runGeneration().
GenTick ==
    /\ mainPc = "interval"
    /\ gpc = "sleep"
    /\ gens < MaxGenerations
    /\ gens' = gens + 1
    /\ gpc' = "load"
    /\ UNCHANGED <<envVars, lockVars, timeVars, file, now, mainPc, serverVars, cfg, gblock, gidx,
                   glocal, html, histVars>>

\* executeIntervalGeneration: <-signals, then return and os.Exit(0).
GenSignal ==
    /\ mainPc = "interval"
    /\ gpc = "sleep"
    /\ mainPc' = "exited"
    /\ UNCHANGED <<envVars, lockVars, timeVars, file, now, serverVars, cfg,
                   gpc, gblock, gidx, glocal, html, gens, histVars>>

NextStatic ==
    \/ GenLoad
    \/ GenExec
    \/ GenStamp
    \/ GenStampAll
    \/ SaveLock
    \/ SaveWrite
    \/ SaveUnlock
    \/ GenHTML
    \/ GenTick
    \/ GenSignal

Next == Main \/ NextServer \/ NextStatic

Spec == Init /\ [][Next]_vars

(***************************************************************************)
(* Scheduling.  Every goroutine that can take a step eventually takes it,  *)
(* and a goroutine that asks for the mutex again and again while it is     *)
(* released again and again eventually gets it (sync.Mutex hands the lock  *)
(* to a starving waiter).  A ticker always fires again.                    *)
(***************************************************************************)
BlockStep(b) ==
    /\ b \in Blocks
    /\ (NewTicker(b) \/ Exec(b) \/ Stamp(b) \/ Unlock(b) \/ Wait(b))

HandlerStep(h) == DataEncode(h) \/ DataUnlock(h)

Fairness ==
    /\ WF_vars(Main \/ LoadConfig \/ SaveLock \/ SaveWrite \/ SaveUnlock
                    \/ AcquireLock \/ Notify \/ StartSchedulers)
    /\ WF_vars(Terminate)
    /\ \A b \in 1..MaxBlocks : WF_vars(BlockStep(b))
    /\ \A b \in 1..MaxBlocks : SF_vars(b \in Blocks /\ Lock(b))
    /\ \A h \in Handlers : WF_vars(HandlerStep(h))
    /\ \A h \in Handlers : SF_vars(DataLock(h))

\* The configurations of the fair runs: those of Init, with the files of
\* one block limited to these commands: one that succeeds, one that fails,
\* one whose result changes, one that never returns, a variable.
FairCommands == {"echo hi", "false", "cat status", "sleep infinity", "%time"}

FairFiles ==
    {f \in InputFiles :
        \/ f = <<>>
        \/ f \in BadFiles
        \/ Len(f[1].blocks) # 1
        \/ Unmarshal(f[1]).blocks[1].command \in FairCommands}

FairInit == Init /\ file \in FairFiles

FairSpec == FairInit /\ [][Next]_vars /\ Fairness

(***************************************************************************)
(* The schedulers under the clock.  Spec leaves every duration open: a     *)
(* ticker may have fired whenever its block waits for it.  TimedSpec       *)
(* follows the seconds: a ticker fires when its interval has elapsed, and  *)
(* a second may pass at any moment, whatever the goroutines are doing.     *)
(***************************************************************************)
\* The configurations of the timed runs: two blocks of commands that return
\* at once, of every pair of these intervals.
TimedIntervals == {1, 2, 100}

TimedFiles ==
    {FileOf(<<[Single("echo hi", ZeroTime) EXCEPT !.interval = i1],
              [Group(<<"T", "E">>, <<"%time", "true">>, ZeroTime)
                  EXCEPT !.interval = i2]>>, ZeroTime) :
        i1 \in TimedIntervals, i2 \in TimedIntervals}
    \cup NoIntervalFiles

\* The command lines of the static modes: -d, -t 1, -t 2, -d -t 1.
TimedStaticFlags ==
    (InputFlags \cup {[d |-> FALSE, t |-> 2]}) \ {[d |-> FALSE, t |-> 0]}

\* The file of the static modes: none, or two blocks.
TimedStaticFiles ==
    {<<>>,
     FileOf(<<Single("echo hi", ZeroTime),
              Group(<<"T", "E">>, <<"%time", "true">>, ZeroTime)>>, ZeroTime)}

TimedInit ==
    /\ \/ /\ flags = [d |-> FALSE, t |-> 0]
          /\ lockPath = "absent"
          /\ file \in TimedFiles
       \/ /\ flags \in TimedStaticFlags
          /\ lockPath \in {"absent", "other"}
          /\ file \in TimedStaticFiles
    /\ version = LinkedHost.version
    /\ os = LinkedHost.os
    /\ Boot

\* Every scheduler is blocked on the channel of its ticker: no scheduler
\* can take a step before a ticker fires.
Quiet == \A b \in Blocks : pc[b] = "wait" /\ ticker[b].c = 0

\* The generator of the interval mode is blocked in its select and the
\* channel of its ticker is empty.
GenQuiet == mainPc = "interval" => (gpc = "sleep" /\ ticker[1].c = 0)

\* The period of ticker b: the interval of block b for the ticker of a
\* scheduler, the value of -t for the ticker of the interval mode.
Period(b) ==
    IF mainPc = "interval" THEN flags.t ELSE config.blocks[b].interval

\* A scheduler that goes on to its next tick without a tick of its ticker.
ReceiveUnticked(b) ==
    /\ pc[b] = "wait"
    /\ pc' = [pc EXCEPT ![b] = "lock"]
    /\ UNCHANGED <<envVars, lockVars, timeVars, file, now, mainPc, config, mutex, idx,
                   local, hpc, response, page, staticVars, histVars>>

\* <-ticker.C: the scheduler takes the tick the channel holds.
Receive(b) ==
    /\ pc[b] = "wait"
    /\ ticker[b].c = 1
    /\ ticker' = [ticker EXCEPT ![b].c = 0]
    /\ pc' = [pc EXCEPT ![b] = "lock"]
    /\ UNCHANGED <<envVars, lockVars, clock, prompt, file, now, mainPc, config, mutex,
                   idx, local, hpc, response, page, staticVars, histVars>>

\* A second passes.  Every ticker whose time has come puts a tick in its
\* channel, which holds one tick: a tick that finds it full is dropped.
Advance ==
    /\ mainPc \in {"serving", "interval"}
    /\ clock < MaxClock
    /\ clock' = clock + 1
    /\ ticker' = [b \in DOMAIN ticker |->
                    IF ticker[b] # NoTicker /\ ticker[b].next = clock + 1
                    THEN [next |-> ticker[b].next + Period(b), c |-> 1]
                    ELSE ticker[b]]
    /\ prompt' = (prompt /\ Quiet /\ GenQuiet)
    /\ UNCHANGED <<envVars, lockVars, file, now, mainPc, serverVars, staticVars,
                   histVars>>

\* An interval mode that starts its next generation without a tick of its
\* ticker.
GenReceiveUnticked ==
    /\ mainPc = "interval"
    /\ gpc = "sleep"
    /\ gens' = gens + 1
    /\ gpc' = "load"
    /\ UNCHANGED <<envVars, lockVars, timeVars, file, now, mainPc, serverVars,
                   cfg, gblock, gidx, glocal, html, histVars>>

\* executeIntervalGeneration: case <-ticker.C, then runGeneration().
GenReceive ==
    /\ mainPc = "interval"
    /\ gpc = "sleep"
    /\ ticker[1].c = 1
    /\ ticker' = [ticker EXCEPT ![1].c = 0]
    /\ gens' = gens + 1
    /\ gpc' = "load"
    /\ UNCHANGED <<envVars, lockVars, clock, prompt, file, now, mainPc,
                   serverVars, cfg, gblock, gidx, glocal, html, histVars>>

TimedNext ==
    \/ Main
    \/ LoadConfig
    \/ AcquireLock
    \/ Notify
    \/ StartSchedulers
    \/ \E b \in Blocks : NewTicker(b)
    \/ \E b \in Blocks : Lock(b)
    \/ \E b \in Blocks : Exec(b)
    \/ \E b \in Blocks : Stamp(b)
    \/ \E b \in Blocks : Unlock(b)
    \/ \E b \in Blocks : Receive(b)
    \/ GenLoad
    \/ GenExec
    \/ GenStamp
    \/ GenStampAll
    \/ SaveLock
    \/ SaveWrite
    \/ SaveUnlock
    \/ GenHTML
    \/ GenReceive
    \/ GenSignal
    \/ Advance

TimedSpec == TimedInit /\ [][TimedNext]_vars

(***************************************************************************)
(* Notions the properties share.                                           *)
(***************************************************************************)
\* Block b is inside a tick: between mutex.Lock and mutex.Unlock.
InTick(b) == pc[b] \in {"exec", "stamp", "unlock"}

\* Block b has completed a tick and is not inside one.
TickDone(b) == gen[b].stamp >= 1 /\ ~InTick(b)

\* The slots of a block.
Slots(block) == 1..NSlots(block)

\* The tree a /data response or a generated page carries.
TreeOf(body) == Unmarshal(body[1])

(***************************************************************************)
(* C1.  A /data response never mixes two ticks of a block: in the tree one *)
(* response carries, all the slots of a block and its last_updated were    *)
(* written by the same tick of that block (tick 0: the loaded values).     *)
(***************************************************************************)
C1_ResponseNeverMixesTicks ==
    \A h \in Handlers :
        response[h] # <<>> =>
            \A b \in DOMAIN respGen[h] :
                \A i \in DOMAIN respGen[h][b].slots :
                    respGen[h][b].slots[i] = respGen[h][b].stamp

\* A response was encoded after a tick of a group block of several slots,
\* and that block is now in the middle of a later tick: one slot written,
\* the others not yet.
C1_Witness ==
    \E h \in Handlers : \E b \in Blocks :
        /\ response[h] # <<>>
        /\ config.blocks[b].type = "group"
        /\ respGen[h][b].stamp >= 1
        /\ pc[b] = "exec"
        /\ idx[b] = 2
        /\ gen[b].slots[1] > respGen[h][b].stamp

(***************************************************************************)
(* C2.  Blocks are independent: while a command of block a is executing,   *)
(* another block whose timer has fired can start its tick and a /data      *)
(* request can take the mutex, without waiting for a.                      *)
(***************************************************************************)
C2_BlocksIndependent ==
    \A a \in Blocks :
        pc[a] = "exec" =>
            /\ \A b \in Blocks \ {a} : pc[b] = "lock" => ENABLED Lock(b)
            /\ \A h \in Handlers : hpc[h] = "lock" => ENABLED DataLock(h)

\* The call executeCommandOrVariable(cmdStr) returns on this host, with a
\* value or with an error: a variable is resolved, bash cannot be started,
\* or the command line ends.
Returns(cmdStr) ==
    \/ Len(cmdStr) > 1 /\ Head(cmdStr) = "%"
    \/ Bash(cmdStr, os) # {}

\* Every call of a tick of the block returns.
BlockReturns(block) ==
    \A i \in Slots(block) : Returns(CommandOf(block, i))

\* The process was ended from outside, by a signal or by the failure of the
\* HTTP listener; the process has ended, by one of these or by the panic of
\* a scheduler.
Stopped == mainPc \in {"exited", "fatal"}
Ended == Stopped \/ mainPc = "panic"

(***************************************************************************)
(* C3.  A command that never terminates stops only its own block: every    *)
(* /data request is eventually answered, and every other block whose timer *)
(* has fired eventually completes that tick (or the clock of the model     *)
(* reaches its bound), unless the process ends.                            *)
(***************************************************************************)
C3_HungCommandIsolated ==
    /\ \A h \in Handlers :
          (hpc[h] = "lock") ~> (hpc[h] = "done" \/ Ended)
    /\ \A b \in 1..MaxBlocks :
          (b \in Blocks /\ pc[b] = "lock" /\ BlockReturns(config.blocks[b]))
          ~> ((b \in Blocks /\ pc[b] = "wait") \/ now = Horizon \/ Ended)

(***************************************************************************)
(* C4.  In server mode, whenever no tick is in progress the persisted file *)
(* holds, for every block, the outputs and last_updated of its most        *)
(* recently completed tick.                                                *)
(***************************************************************************)
C4_FileHoldsLastTick ==
    (mainPc = "serving" /\ mutex = NoTask) =>
        /\ file # <<>>
        /\ \A b \in Blocks :
              /\ TreeOf(file).blocks[b].last_updated
                    = config.blocks[b].last_updated
              /\ \A i \in Slots(config.blocks[b]) :
                    OutputOf(TreeOf(file).blocks[b], i)
                        = OutputOf(config.blocks[b], i)

(***************************************************************************)
(* C5.  Every tick of a block, in server mode and in a static generation,  *)
(* leaves the block's last_updated strictly greater than it was before the *)
(* tick, the first tick after loading included; in server mode the         *)
(* last_updated of a block never decreases.                                *)
(***************************************************************************)
C5_LastUpdatedStrictlyIncreases ==
    [][/\ \A b \in Blocks :
            (pc[b] = "stamp" /\ pc'[b] = "unlock") =>
                config'.blocks[b].last_updated > config.blocks[b].last_updated
       /\ (gpc = "stamp" /\ gblock' = gblock + 1) =>
                cfg'.blocks[gblock].last_updated
                    > cfg.blocks[gblock].last_updated
       /\ \A b \in Blocks :
            mainPc = "serving" =>
                config'.blocks[b].last_updated >= config.blocks[b].last_updated
      ]_vars

(***************************************************************************)
(* C6.  After a tick of a block every output slot of its type is           *)
(* non-empty, in the tree of the server and in the page of a static        *)
(* generation.                                                             *)
(***************************************************************************)
C6_OutputsNonEmptyAfterTick ==
    /\ \A b \in Blocks :
          TickDone(b) =>
              \A i \in Slots(config.blocks[b]) :
                  OutputOf(config.blocks[b], i) # ""
    /\ html # <<>> =>
          \A b \in 1..Len(TreeOf(html).blocks) :
              \A i \in Slots(TreeOf(html).blocks[b]) :
                  OutputOf(TreeOf(html).blocks[b], i) # ""

(***************************************************************************)
(* C7.  A group block keeps its k (label, command) pairs in the configured *)
(* order through every tick, a /data response carries k slots, and after a *)
(* tick slot i holds a result of command i.                                *)
(***************************************************************************)
\* The texts a tick may store for a command string.
Results(cmdStr) ==
    UNION {{SlotText(r) : r \in executeCommandOrVariable(cmdStr, t, version, os)} :
             t \in 0..MaxTime}

C7_GroupSlotsKeepOrder ==
    \A b \in Blocks :
        LET block == config.blocks[b]
            ref == TreeOf(file).blocks[b]
        IN  block.type = "group" =>
              /\ Len(block.commands) = Len(ref.commands)
              /\ \A i \in 1..Len(ref.commands) :
                    /\ block.commands[i].label = ref.commands[i].label
                    /\ block.commands[i].command = ref.commands[i].command
                    /\ TickDone(b) =>
                          block.commands[i].output
                              \in Results(ref.commands[i].command)
              /\ \A h \in Handlers :
                    response[h] # <<>> =>
                        Len(TreeOf(response[h]).blocks[b].commands)
                            = Len(ref.commands)

\* A group of three commands after its second tick: the first failed, the
\* second succeeded.
C7_Witness ==
    \E b \in Blocks :
        /\ config.blocks[b].type = "group"
        /\ Len(config.blocks[b].commands) = 3
        /\ TickDone(b)
        /\ gen[b].stamp >= 2
        /\ HasPrefix(config.blocks[b].commands[1].output, "Error:")
        /\ config.blocks[b].commands[2].output = "ready"

(***************************************************************************)
(* C8.  A failing command puts a text beginning with "Error:" in its slot; *)
(* the tick still executes every command of the block exactly once, stamps *)
(* last_updated, and the scheduler can go on to its next tick.             *)
(***************************************************************************)
\* The command string can only fail on this host.
AlwaysFails(cmdStr) ==
    /\ executeCommandOrVariable(cmdStr, now, version, os) # {}
    /\ \A r \in executeCommandOrVariable(cmdStr, now, version, os) : r.err # Nil

C8_FailureIsLocalToSlot ==
    \A b \in Blocks :
        LET block == config.blocks[b]
        IN  /\ (idx[b] >= 2 /\ local[b].err # Nil) =>
                  HasPrefix(OutputOf(block, idx[b] - 1), "Error:")
            /\ pc[b] \in {"stamp", "unlock", "wait"} =>
                  /\ idx[b] = NSlots(block) + 1
                  /\ \A i \in Slots(block) : gen[b].slots[i] = tickNo[b]
            /\ pc[b] \in {"unlock", "wait"} =>
                  /\ gen[b].stamp = tickNo[b]
                  /\ block.last_updated > StartTime
                  /\ block.last_updated <= now
            /\ TickDone(b) =>
                  \A i \in Slots(block) :
                      AlwaysFails(CommandOf(block, i)) =>
                          HasPrefix(OutputOf(block, i), "Error:")
            /\ pc[b] = "wait" => ENABLED Wait(b)

\* The first command of a group failed in the block's second tick, the
\* commands after it were executed in that tick, and the block waits for
\* its next tick.
C8_Witness ==
    \E b \in Blocks :
        /\ config.blocks[b].type = "group"
        /\ Len(config.blocks[b].commands) >= 2
        /\ pc[b] = "wait"
        /\ tickNo[b] = 2
        /\ AlwaysFails(CommandOf(config.blocks[b], 1))
        /\ HasPrefix(config.blocks[b].commands[1].output, "Error:")
        /\ \A i \in Slots(config.blocks[b]) : gen[b].slots[i] = 2

(***************************************************************************)
(* C9.  A slot holds what the last execution of its command returned: the  *)
(* trimmed output when it succeeded ("hi" for `echo hi`), "Error: " and    *)
(* the error when it failed; nothing of the previous content survives.     *)
(***************************************************************************)
C9_SlotIsLastResult ==
    \A b \in Blocks :
        idx[b] >= 2 =>
            LET cmdStr == CommandOf(config.blocks[b], idx[b] - 1)
                out == OutputOf(config.blocks[b], idx[b] - 1)
            IN  /\ out = IF local[b].err # Nil
                         THEN "Error: " \o local[b].err
                         ELSE local[b].output
                /\ (local[b].err = Nil /\ local[b].spawned) =>
                        /\ out = TrimSpace(out)
                        /\ ~HasPrefix(out, "Error:")
                /\ (cmdStr = "echo hi" /\ os.bash) => out = "hi"
                /\ out # OldOutput(PastTime)

\* A response shows "Error: ..." in a slot after one tick, and the same
\* slot holds the plain output of the command after the next tick.
C9_Witness ==
    \E h \in Handlers : \E b \in Blocks :
        /\ response[h] # <<>>
        /\ config.blocks[b].type = "single"
        /\ respGen[h][b].stamp >= 1
        /\ HasPrefix(TreeOf(response[h]).blocks[b].output, "Error:")
        /\ TickDone(b)
        /\ gen[b].stamp > respGen[h][b].stamp
        /\ config.blocks[b].output = "ready"

(***************************************************************************)
(* C10.  A command string of more than one character that begins with '%'  *)
(* is resolved without error and without a shell: a known name gives its   *)
(* value, any other name "Unknown variable", and the slot receives the     *)
(* value as it is (the tick does not take its error branch).               *)
(***************************************************************************)
KnownVariables ==
    {"%hostname", "%time", "%date", "%year", "%month", "%day", "%dayname",
     "%hours", "%minutes", "%seconds", "%username", "%ip_address",
     "%app_name", "%app_version"}

\* What C10 says of the result r of the call for cmdStr, stored as out.
VariableResolved(cmdStr, r, out) ==
    (Len(cmdStr) > 1 /\ Head(cmdStr) = "%") =>
        /\ r.err = Nil
        /\ ~r.spawned
        /\ out = r.output
        /\ cmdStr \notin KnownVariables => r.output = "Unknown variable"
        /\ cmdStr = "%app_name" => r.output = "Dazibao"
        /\ cmdStr = "%app_version" => r.output = version
        /\ cmdStr = "%date" =>
              /\ Len(r.output) = 10
              /\ SubSeq(r.output, 5, 5) = "-"
              /\ SubSeq(r.output, 8, 8) = "-"
        /\ cmdStr = "%time" =>
              /\ Len(r.output) = 8
              /\ SubSeq(r.output, 3, 3) = ":"
              /\ SubSeq(r.output, 6, 6) = ":"
        /\ (cmdStr = "%hostname" /\ os.hostname.err = Nil) =>
              r.output = os.hostname.val
        /\ (cmdStr = "%username" /\ os.user.err = Nil) =>
              r.output = os.user.val
        /\ (cmdStr = "%ip_address" /\ os.ip.err = Nil) =>
              r.output \in {os.ip.val, "N/A"}

C10_VariableNeverErrors ==
    /\ \A b \in Blocks :
          idx[b] >= 2 =>
              VariableResolved(CommandOf(config.blocks[b], idx[b] - 1),
                               local[b],
                               OutputOf(config.blocks[b], idx[b] - 1))
    /\ (gpc \in {"exec", "stamp"} /\ gidx >= 2) =>
              VariableResolved(CommandOf(cfg.blocks[gblock], gidx - 1),
                               glocal,
                               OutputOf(cfg.blocks[gblock], gidx - 1))

\* An unknown name has just been resolved in a tick of a group.
C10_Witness ==
    \E b \in Blocks :
        /\ pc[b] = "stamp"
        /\ idx[b] = 4
        /\ CommandOf(config.blocks[b], 3) = "%bogus"
        /\ OutputOf(config.blocks[b], 3) = "Unknown variable"
        /\ ~local[b].spawned

(***************************************************************************)
(* C11.  A failure to write the configuration file after a tick does not   *)
(* keep the results of the tick from being served: a static generation     *)
(* that executed its blocks ends with the page of the tree it computed.    *)
(***************************************************************************)
C11_StorageFailureStillServes ==
    (gpc \in {"idle", "sleep"} /\ cfg # ZeroConfig) =>
        /\ html # <<>>
        /\ TreeOf(html).last_updated = cfg.last_updated
        /\ \A b \in 1..Len(cfg.blocks) :
              /\ TreeOf(html).blocks[b].last_updated
                    = cfg.blocks[b].last_updated
              /\ \A i \in Slots(cfg.blocks[b]) :
                    OutputOf(TreeOf(html).blocks[b], i)
                        = OutputOf(cfg.blocks[b], i)

(***************************************************************************)
(* C12.  Round trip: the tree that getFreshConfig loads from the file      *)
(* saveConfigToFile wrote for a tree equals that tree field for field,     *)
(* except that a port of zero is loaded as 8080.                           *)
(***************************************************************************)
\* The tree that is loaded after `tree` was saved.
SavedThenLoaded(tree) == getFreshConfig(<<Marshal(tree)>>)

C12_RoundTrip ==
    \A tree \in {config, cfg} :
        /\ SavedThenLoaded(tree).err = Nil
        /\ SavedThenLoaded(tree).cfg =
              IF tree.port = 0 THEN [tree EXCEPT !.port = DefaultPort]
              ELSE tree

(***************************************************************************)
(* C13.  A scheduler runs its first tick at once and then at most one tick *)
(* per elapsed interval of its own block.  When no second passes while a   *)
(* scheduler could run (the commands return at once), the number of ticks  *)
(* a block has completed depends on the clock and on its own interval      *)
(* only: after 3 seconds a block of interval 1 has completed at least 2    *)
(* ticks and a block of interval 100 exactly one.  The intervals are the   *)
(* positive ones of the configuration format: the scheduler of a block     *)
(* whose interval is not positive never enters a tick.                     *)
(***************************************************************************)
C13_TicksFollowOwnInterval ==
    \A b \in Blocks :
        LET n == config.blocks[b].interval
        IN  IF n <= 0 THEN tickNo[b] = 0
            ELSE
            /\ tickNo[b] <= 1 + clock \div n
            /\ prompt => gen[b].stamp >= clock \div n
            /\ (prompt /\ Quiet) => gen[b].stamp = 1 + clock \div n
            /\ (prompt /\ clock >= 3 /\ n = 1) => gen[b].stamp >= 2
            /\ (prompt /\ Quiet /\ clock = 3 /\ n = 100) => gen[b].stamp = 1

\* Three seconds have passed, the block of interval 1 has completed the
\* ticks of the seconds 0 to 3 and the block of interval 100 its first one.
C13_Witness ==
    /\ prompt
    /\ Quiet
    /\ clock = 3
    /\ Len(config.blocks) = 2
    /\ config.blocks[1].interval = 1
    /\ config.blocks[2].interval = 100
    /\ gen[1].stamp = 4
    /\ gen[2].stamp = 1

(***************************************************************************)
(* C14.  The page the root handler returns embeds the JSON document of the *)
(* configuration tree as it is at that instant, the document a /data       *)
(* response encoded at that instant carries.                               *)
(***************************************************************************)
C14_PageEmbedsSnapshot ==
    [][\A h \in Handlers :
          (page[h] = <<>> /\ page'[h] # <<>>) =>
              page'[h][1] = JSONOf(config')]_vars


(***************************************************************************)
(* C15, as stated: once the schedulers are started, every read and every  *)
(* write of the shared configuration tree by a scheduler, a request       *)
(* handler (the /data encoder) or the persistence routine happens while   *)
(* that task holds the single mutex, and the persisted file is written    *)
(* only by the holder of the mutex: the tasks that are at a position      *)
(* where they access the tree, or write the file, are never two.          *)
(***************************************************************************)
\* The tasks at a position where they read or write the fields of the tree
\* that a task writes (the outputs and the last_updated stamps), or write
\* the file: a scheduler in the body of its loop, a /data handler that
\* encodes, the persistence routine.
Mutating ==
    {BlockTask(b) : b \in {x \in DOMAIN pc : pc[x] \in {"exec", "stamp", "unlock"}}}
    \cup {HandlerTask(h) : h \in {x \in Handlers : hpc[x] \in {"encode", "unlock"}}}
    \cup (IF spc \in {"write", "written", "failed"} THEN {SaverTask} ELSE {})

\* The tasks at a position where they access the tree or write the file:
\* those above, and a scheduler at time.NewTicker(block.Interval), which
\* reads the interval of its block before its first mutex.Lock.
Accessing ==
    Mutating \cup {BlockTask(b) : b \in {x \in DOMAIN pc : pc[x] = "start"}}

\* Every change of the tree of a serving process, every encoded response
\* and every change of the file is a step of the holder of the mutex.
HolderSteps ==
    /\ (config' # config /\ mainPc = "serving" /\ mainPc' = "serving")
          => \E b \in Blocks : mutex = BlockTask(b) /\ mutex' = mutex
    /\ \A h \in Handlers :
          (response'[h] # response[h] /\ response'[h] # <<>>)
              => mutex = HandlerTask(h)
    /\ file' # file => mutex = SaverTask /\ mutex' = mutex

C15_MutexGuardsTree ==
    /\ [](Accessing \subseteq {mutex} /\ Cardinality(Accessing) <= 1)
    /\ [][HolderSteps]_vars

(***************************************************************************)
(* C15, amended: once the schedulers are started, every write of the      *)
(* tree, every read of a field that a task writes (the outputs and the    *)
(* last_updated stamps) and every write of the file is made by the holder *)
(* of the mutex, and the tasks at such a position are never two.  The one *)
(* access outside the mutex is the read of the interval of its own block  *)
(* by a scheduler that creates its ticker, before its first tick: that    *)
(* step writes nothing, and no step of a serving process changes an       *)
(* interval.                                                              *)
(***************************************************************************)
C15_MutexGuardsWrittenFields ==
    /\ [](/\ Mutating \subseteq {mutex}
          /\ Cardinality(Mutating) <= 1
          /\ Accessing \ Mutating
                = {BlockTask(b) : b \in {x \in Blocks : tickNo[x] = 0
                                                     /\ pc[x] = "start"}})
    /\ [][/\ HolderSteps
          /\ (mainPc = "serving" /\ mainPc' = "serving") =>
                /\ Len(config'.blocks) = Len(config.blocks)
                /\ \A b \in 1..Len(config.blocks) :
                      config'.blocks[b].interval = config.blocks[b].interval
          /\ \A b \in Blocks :
                (pc[b] = "start" /\ mainPc' = "serving" /\ pc'[b] # "start")
                    => /\ config' = config
                       /\ file' = file
                       /\ ticker'[b].next
                             = clock + config.blocks[b].interval]_vars

\* A scheduler reads the interval of its block to create its ticker while
\* another scheduler, in its tick with the mutex, writes the tree and a
\* /data request waits for the mutex.
C15_Witness ==
    /\ mainPc = "serving"
    /\ Len(config.blocks) >= 2
    /\ pc[1] = "start"
    /\ pc[2] = "exec"
    /\ mutex = BlockTask(2)
    /\ \E h \in Handlers : hpc[h] = "lock"


(***************************************************************************)
(* C16: in server mode no scheduler runs and no request is served before  *)
(* the configuration is loaded; it is loaded once, from the file or, when *)
(* there is no file, made of the default blocks and saved; when           *)
(* ensureAssets fails (home directory, ~/.dazibao) or the file cannot be  *)
(* parsed, the process exits and has started no scheduler.                *)
(***************************************************************************)
\* What a configuration holds apart from the outputs, the timestamps and
\* the version of the build.
Immutable(tree) ==
    [blocks |-> [b \in 1..Len(tree.blocks) |->
                    [type |-> tree.blocks[b].type,
                     title |-> tree.blocks[b].title,
                     command |-> tree.blocks[b].command,
                     commands |->
                        [i \in 1..Len(tree.blocks[b].commands) |->
                            [label |-> tree.blocks[b].commands[i].label,
                             command |-> tree.blocks[b].commands[i].command]],
                     interval |-> tree.blocks[b].interval,
                     colors |-> tree.blocks[b].colors]],
     port |-> tree.port, colors |-> tree.colors]

ServerMode == ~flags.d /\ flags.t = 0

\* The configuration in memory is the one the file holds.
ConfigLoaded ==
    /\ file # <<>>
    /\ getFreshConfig(file).err = Nil
    /\ Immutable(config) = Immutable(getFreshConfig(file).cfg)

C16_LoadedBeforeScheduling ==
    /\ [](/\ (\/ pc # <<>>
              \/ \E h \in Handlers : \/ hpc[h] # "idle"
                                     \/ response[h] # <<>>
                                     \/ page[h] # <<>>)
                => (ServerMode /\ mainPc = "serving" /\ ConfigLoaded)
          /\ mainPc \in {"acquireLock", "notify", "startServer", "serving"}
                => ConfigLoaded
          /\ mainPc = "acquireLock" => config = getFreshConfig(file).cfg
          /\ os.assets # Nil => mainPc \in {"start", "fatal"}
          /\ (ServerMode /\ file \in BadFiles)
                => mainPc \in {"start", "loadConfig", "fatal", "killed"})
    /\ [][/\ mainPc' = "loadConfig" => mainPc \in {"start", "loadConfig"}
          /\ (mainPc = "loadConfig" /\ mainPc' \notin {"loadConfig", "killed"})
                => IF file = <<>>
                   THEN /\ mainPc' = "saveDefault"
                        /\ config' = createDefaultConfig(now)
                   ELSE IF getFreshConfig(file).err = Nil
                   THEN /\ mainPc' = "acquireLock"
                        /\ config' = getFreshConfig(file).cfg
                   ELSE mainPc' = "fatal"
          /\ (mainPc = "saveDefault" /\ mainPc' = "acquireLock")
                => file = <<Marshal(createDefaultConfig(config.last_updated))>>
          /\ (mainPc = "saveDefault" /\ mainPc' = "fatal") => file = <<>>
          /\ mainPc = "fatal" => mainPc' = "fatal"]_vars

\* A first start: the schedulers of the three default blocks run, and the
\* file holds the default configuration.
C16_Witness ==
    /\ mainPc = "serving"
    /\ Len(config.blocks) = 3
    /\ config.blocks[3].title = "System Info"
    /\ file = <<Marshal(createDefaultConfig(StartTime))>>
    /\ pc[3] = "exec"
    /\ idx[3] = 2


(***************************************************************************)
(* C17, as stated: a serving process that holds the lock and receives     *)
(* SIGINT or SIGTERM, wherever its schedulers are in their ticks, removes *)
(* the lock file before it exits; a scheduler of a living process never   *)
(* stops: the schedulers end together, with the process, when it exits on *)
(* the signal, on the failure of the listener, or on the panic of a       *)
(* scheduler that has not entered its first tick.                         *)
(***************************************************************************)
LoopPositions == {"start", "lock", "exec", "stamp", "unlock", "wait"}

\* Wherever the schedulers are, the process has created the lock file;
\* until a signal is received the file is there and the signal can be
\* taken, and after releaseLock the goroutine can exit.
SignalAnywhere ==
    \A b \in Blocks :
        /\ pc[b] \in LoopPositions
        /\ lockFile
        /\ sigPc \in {"wait", "exit"}
        /\ sigPc = "wait" => (lockPath = "own" /\ ENABLED ReleaseLock)
        /\ sigPc = "exit" => ENABLED Terminate

\* The schedulers of a serving process stay in their loops, and end only
\* together, with the process.
NoOtherCancellation ==
    /\ (mainPc = "serving" /\ mainPc' = "serving")
          => /\ DOMAIN pc' = DOMAIN pc
             /\ \A b \in Blocks : pc'[b] \in LoopPositions
    /\ (mainPc = "serving" /\ mainPc' # "serving")
          => /\ mainPc' \in {"exited", "fatal", "panic"}
             /\ pc' = <<>>
             /\ mainPc' = "panic" =>
                   \E b \in Blocks : /\ pc[b] = "start"
                                     /\ tickNo[b] = 0
                                     /\ config.blocks[b].interval <= 0
                                     /\ lockPath' = lockPath

\* The process exits on the signal: the goroutine has called releaseLock.
SignalExit ==
    /\ mainPc \in {"startServer", "serving"}
    /\ mainPc' = "exited"

C17_SignalRemovesLock ==
    /\ []SignalAnywhere
    /\ [][/\ SignalExit => /\ sigPc = "exit"
                           /\ lockPath = "absent"
                           /\ lockPath' = "absent"
          /\ NoOtherCancellation]_vars

(***************************************************************************)
(* C17, amended: a serving process that holds the lock and receives       *)
(* SIGINT or SIGTERM, wherever its schedulers are in their ticks, closes  *)
(* the lock file and calls os.Remove on it before it exits: the file is   *)
(* gone when os.Remove succeeds; when os.Remove fails the process logs a  *)
(* warning and exits all the same, and the lock file stays.  The signal   *)
(* goroutine takes no mutex and stops no scheduler: between releaseLock   *)
(* and os.Exit the schedulers and the handlers go on.  The schedulers     *)
(* have no other cancellation.                                            *)
(***************************************************************************)
C17_SignalReleasesLock ==
    /\ [](/\ SignalAnywhere
          /\ sigPc = "exit" =>
                lockPath = (IF os.remove = Nil THEN "absent" ELSE "own"))
    /\ [][/\ SignalExit => /\ sigPc = "exit"
                           /\ lockPath' = lockPath
                           /\ os.remove = Nil => lockPath = "absent"
                           /\ os.remove # Nil => lockPath = "own"
          /\ (sigPc = "wait" /\ sigPc' = "exit") =>
                /\ lockPath' = (IF os.remove = Nil THEN "absent" ELSE "own")
                /\ mainPc' = mainPc
                /\ pc' = pc
                /\ mutex' = mutex
          /\ NoOtherCancellation]_vars

\* The server was stopped by a signal after its schedulers ticked: the
\* lock file it had created is removed.
C17_Witness ==
    /\ ServerMode
    /\ os.remove = Nil
    /\ mainPc = "exited"
    /\ now > StartTime
    /\ lockPath = "absent"
    /\ ~lockFile


(***************************************************************************)
(* C18: a tick of block b changes only the outputs and the last_updated   *)
(* of b and the global last_updated.  Every step that changes the tree of *)
(* a serving process is a step of the tick that holds the mutex, and it   *)
(* leaves every other block as it was and, for all blocks, the type, the  *)
(* title, the interval, the commands, the labels and the styling, as well *)
(* as the number and order of the blocks, the port, the version and the   *)
(* global styling.                                                        *)
(***************************************************************************)
C18_TickWritesOwnBlockOnly ==
    [][(mainPc = "serving" /\ mainPc' = "serving" /\ config' # config) =>
          \E b \in Blocks :
              /\ InTick(b)
              /\ mutex = BlockTask(b)
              /\ Immutable(config') = Immutable(config)
              /\ config'.version = config.version
              /\ Len(config'.blocks) = Len(config.blocks)
              /\ \A o \in Blocks \ {b} : config'.blocks[o] = config.blocks[o]
              /\ \/ /\ pc[b] = "exec"
                    /\ config'.last_updated = config.last_updated
                    /\ config'.blocks[b].last_updated
                         = config.blocks[b].last_updated
                 \/ /\ pc[b] = "stamp"
                    /\ \A i \in Slots(config.blocks[b]) :
                          OutputOf(config'.blocks[b], i)
                            = OutputOf(config.blocks[b], i)]_vars

\* The group block completed a tick before the first tick of the single
\* block: the single block is as the file held it, the group block is not.
C18_Witness ==
    /\ mainPc = "serving"
    /\ Len(config.blocks) = 2
    /\ tickNo[1] = 0
    /\ gen[2].stamp = 1
    /\ pc[2] = "wait"
    /\ config.blocks[1] = Single("echo hi", PastTime)
    /\ config.blocks[2].last_updated > PastTime
    /\ config.last_updated > PastTime
    /\ OutputOf(config.blocks[2], 2) # "old"


(***************************************************************************)
(* C19: after loading any configuration file and after any number of      *)
(* ticks, every block holds the fields of its type only: a `single` block *)
(* has no command list (and so no group outputs), a `group` block has no  *)
(* single command and no single output.                                   *)
(***************************************************************************)
FieldsFollowType(block) ==
    /\ block.type = "single" => block.commands = <<>>
    /\ block.type = "group" => (block.command = "" /\ block.output = "")

C19_OneOutputKindPerType ==
    \A tree \in {config, cfg} :
        \A b \in 1..Len(tree.blocks) : FieldsFollowType(tree.blocks[b])


(***************************************************************************)
(* C20: the flags select exactly one mode.  -d runs one static            *)
(* generation, which executes every block once, and exits; -t n with      *)
(* n > 0 runs a generation at once and then one per n seconds until a     *)
(* termination signal; otherwise the server runs.  The two static modes   *)
(* start no scheduler and no web server and do not take the lock.         *)
(***************************************************************************)
ServerPositions ==
    {"loadConfig", "saveDefault", "acquireLock", "notify", "startServer",
     "serving"}

\* The process has done something of the server mode, of a static mode.
ServerActed ==
    \/ mainPc \in ServerPositions
    \/ config # ZeroConfig
    \/ pc # <<>>
    \/ lockFile
    \/ \E h \in Handlers : hpc[h] # "idle" \/ response[h] # <<>>
                              \/ page[h] # <<>>

StaticActed ==
    \/ mainPc \in {"dryrun", "interval"}
    \/ gpc # "idle"
    \/ gens > 0
    \/ cfg # ZeroConfig
    \/ html # <<>>

C20_OneModePerInvocation ==
    /\ [](/\ ServerActed => (ServerMode /\ ~StaticActed)
          /\ StaticActed => (~ServerMode /\ ~ServerActed)
          /\ mainPc = "dryrun" => flags.d
          /\ mainPc = "interval" => (~flags.d /\ flags.t > 0)
          /\ ~ServerMode => (mainPc # "killed" /\ mutex \in {NoTask, SaverTask})
          \* -d: one generation; when it exits, every block was executed
          \* and stamped, the file and the page hold the result.
          /\ flags.d => gens <= 1
          /\ (flags.d /\ mainPc = "exited")
                => /\ gens = 1
                   /\ gblock = Len(cfg.blocks) + 1
                   /\ \A b \in 1..Len(cfg.blocks) :
                         cfg.blocks[b].last_updated > ZeroTime
                   /\ html = <<Marshal(cfg)>>
                   /\ file = html
          \* -t n: a generation at once, then one per tick of the ticker.
          /\ mainPc = "interval"
                => /\ gens >= 1
                   /\ gens <= 1 + clock \div flags.t
                   /\ (prompt /\ GenQuiet) => gens = 1 + clock \div flags.t)
    /\ [][/\ (mainPc = "start" /\ mainPc' # "start")
                => mainPc' = IF flags.d THEN "dryrun"
                             ELSE IF flags.t > 0 THEN "interval"
                             ELSE "loadConfig"
          /\ ~ServerMode => lockPath' = lockPath
          \* -d executes no block twice
          /\ flags.d => (gblock' >= gblock /\ (gblock' = gblock => gidx' >= gidx))
          \* -t n ends by the signal only, between two generations
          /\ (mainPc = "interval" /\ mainPc' # "interval")
                => (mainPc' = "exited" /\ gpc = "sleep")
          /\ (mainPc = "interval" /\ gpc = "sleep") => ENABLED GenSignal]_vars

\* -t 1: three seconds have passed and the fourth generation has written
\* its page; no lock was taken.
C20_Witness ==
    /\ flags = [d |-> FALSE, t |-> 1]
    /\ mainPc = "interval"
    /\ prompt
    /\ GenQuiet
    /\ clock = 3
    /\ gens = 4
    /\ html # <<>>
    /\ lockPath = "absent"
    /\ ~lockFile
    /\ pc = <<>>


(***************************************************************************)
(* C21: when every command terminates and the mutex and the scheduling    *)
(* are fair, every scheduler goes Idle -> Running -> Idle again and       *)
(* again: a scheduler that was started runs its first tick, a tick that   *)
(* is running completes, and a scheduler that is idle runs its next tick, *)
(* with any number of blocks and with /data requests arriving.  The      *)
(* intervals are the positive ones of the configuration format.  A        *)
(* scheduler stops only with the process, ended by a termination signal   *)
(* or by the failure of the HTTP listener; the clock of the model ends at *)
(* Horizon.                                                               *)
(***************************************************************************)
\* No call of a tick hangs: every command of the configuration returns on
\* this host.
AllCommandsTerminate ==
    \A b \in 1..Len(config.blocks) : BlockReturns(config.blocks[b])

Idle(b) == b \in Blocks /\ pc[b] = "wait"
Running(b) == b \in Blocks /\ InTick(b)

\* Every interval of the configuration is positive, as the configuration
\* format requires.
PositiveIntervals ==
    \A b \in 1..Len(config.blocks) : config.blocks[b].interval > 0

Live == AllCommandsTerminate /\ PositiveIntervals

\* Scheduler b is between two ticks: it creates its ticker, waits for the
\* mutex, or waits for its ticker.
Waiting(b) == Idle(b) \/ (b \in Blocks /\ pc[b] \in {"start", "lock"})

\* A scheduler that is between two ticks stays so until its next tick runs,
\* and a tick that runs stays running until the scheduler is idle: it
\* leaves neither phase in another way, short of the end of the process.
PhaseUntilNext(b) ==
    /\ (Live /\ Waiting(b) /\ ~(now = Horizon \/ Stopped))
          => \/ (Live /\ Waiting(b))'
             \/ (Running(b) \/ now = Horizon \/ Stopped)'
    /\ (Live /\ Running(b))
          => \/ (Live /\ Running(b))'
             \/ (Idle(b) \/ Stopped)'

\* With PhaseUntilNext, `again and again not P, or Q` is `P leads to Q`:
\* a scheduler between two ticks reaches its next tick, a running tick
\* completes.
C21_SchedulersTickForever ==
    /\ [][\A b \in 1..MaxBlocks : PhaseUntilNext(b)]_vars
    /\ \A b \in 1..MaxBlocks :
          /\ []<>(~(Live /\ Waiting(b))
                    \/ Running(b) \/ now = Horizon \/ Stopped)
          /\ []<>(~(Live /\ Running(b)) \/ Idle(b) \/ Stopped)

\* The first scheduler of two has completed its second tick, the other its
\* first, and a /data request was answered.
C21_Witness ==
    /\ mainPc = "serving"
    /\ AllCommandsTerminate
    /\ Len(config.blocks) >= 2
    /\ Idle(1)
    /\ gen[1].stamp = 2
    /\ gen[2].stamp = 1
    /\ \E h \in Handlers : hpc[h] = "done" /\ response[h] # <<>>


(***************************************************************************)
(* C22, as stated: a command string is a built-in variable only when it   *)
(* is "%" followed by a known identifier; every other string, "%" with an *)
(* unknown identifier, the lone "%" and the empty string included, is run *)
(* by the shell.                                                          *)
(***************************************************************************)
\* The result r of the call for cmdStr came from the shell exactly when
\* cmdStr is not a known variable.
ShellUnlessKnown(cmdStr, r) == r.spawned <=> cmdStr \notin KnownVariables

C22_OnlyKnownNamesAreVariables ==
    /\ \A b \in Blocks :
          idx[b] >= 2 =>
              ShellUnlessKnown(CommandOf(config.blocks[b], idx[b] - 1),
                               local[b])
    /\ (gpc \in {"exec", "stamp"} /\ gidx >= 2) =>
              ShellUnlessKnown(CommandOf(cfg.blocks[gblock], gidx - 1), glocal)

(***************************************************************************)
(* C22, amended: a command string is a built-in variable when it is "%"   *)
(* followed by at least one character, whatever the identifier; an        *)
(* unknown identifier is not run by the shell, its value is the text      *)
(* "Unknown variable".  Every other string, the lone "%" and the empty    *)
(* string included, is run by the shell as a command line.                *)
(***************************************************************************)
ShellUnlessPercent(cmdStr, r) ==
    LET variable == Len(cmdStr) > 1 /\ Head(cmdStr) = "%"
    IN  /\ r.spawned <=> ~variable
        /\ (variable /\ cmdStr \notin KnownVariables)
              => (r.output = "Unknown variable" /\ r.err = Nil)
        /\ ~variable =>
              \E s \in Bash(cmdStr, os) :
                  /\ r.err = s.err
                  /\ r.err = Nil => r.output = TrimSpace(s.out)

C22_PercentPrefixIsVariable ==
    /\ \A b \in Blocks :
          idx[b] >= 2 =>
              ShellUnlessPercent(CommandOf(config.blocks[b], idx[b] - 1),
                                 local[b])
    /\ (gpc \in {"exec", "stamp"} /\ gidx >= 2) =>
              ShellUnlessPercent(CommandOf(cfg.blocks[gblock], gidx - 1),
                                 glocal)

\* The lone "%" has just been run by the shell, which failed on it.
C22_Witness ==
    \E b \in Blocks :
        /\ pc[b] = "stamp"
        /\ config.blocks[b].command = "%"
        /\ local[b].spawned
        /\ local[b].err = "exit status 1"
        /\ config.blocks[b].output = "Error: exit status 1"


(***************************************************************************)
(* C23: no task requests the mutex while it holds it, and when all the    *)
(* commands terminate every acquisition is followed by a release: a       *)
(* holder of the mutex gives it back, so the schedulers and the /data     *)
(* handlers that wait for it are not blocked for ever.                    *)
(***************************************************************************)
\* The tasks that are at mutex.Lock().
Requesting ==
    {BlockTask(b) : b \in {x \in Blocks : pc[x] = "lock"}}
    \cup {HandlerTask(h) : h \in {x \in Handlers : hpc[x] = "lock"}}
    \cup (IF spc = "idle" /\ (mainPc = "saveDefault" \/ gpc = "save")
          THEN {SaverTask} ELSE {})

C23_NoSelfDeadlock ==
    /\ [](mutex \notin Requesting)
    /\ (AllCommandsTerminate /\ mutex # NoTask) ~> (mutex = NoTask)
    /\ \A h \in Handlers :
          (AllCommandsTerminate /\ hpc[h] = "lock")
              ~> (hpc[h] = "encode" \/ Ended)

\* A /data handler holds the mutex that a scheduler, which has completed a
\* tick before, now waits for.
C23_Witness ==
    /\ mainPc = "serving"
    /\ AllCommandsTerminate
    /\ \E h \in Handlers : hpc[h] = "encode" /\ mutex = HandlerTask(h)
    /\ \E b \in Blocks : pc[b] = "lock" /\ gen[b].stamp >= 1


(***************************************************************************)
(* C24: in every state of the server where no tick is in progress (the    *)
(* mutex is free) the global last_updated is not earlier than the         *)
(* last_updated of any block that has completed a tick, and no tick of    *)
(* any block lowers the global last_updated.                              *)
(***************************************************************************)
C24_GlobalStampDominates ==
    /\ []((mainPc = "serving" /\ mutex = NoTask) =>
            \A b \in Blocks :
                gen[b].stamp >= 1 =>
                    config.last_updated >= config.blocks[b].last_updated)
    /\ [][(mainPc = "serving" /\ mainPc' = "serving")
             => config'.last_updated >= config.last_updated]_vars


(***************************************************************************)
(* C25: whenever a server process that acquired the lock has exited, by a *)
(* termination signal, by a failure of the HTTP listener or by any other  *)
(* path, the lock file it created no longer exists.                       *)
(***************************************************************************)
\* The process has exited: os.Exit(0) after a signal, log.Fatal, or the
\* panic of a scheduler.
Exited == mainPc \in {"exited", "fatal", "panic"}

\* The host lets the lock file be removed: a lock file that stays was left
\* by the program.
C25_NoStaleLock ==
    (ServerMode /\ Exited /\ os.remove = Nil) => lockPath # "own"


(***************************************************************************)
(* C26: a tick of a block whose type is neither "single" nor "group"      *)
(* executes no command and leaves every output of the block as it was,    *)
(* and still stamps the last_updated of the block and the global          *)
(* last_updated, in runBlock and in generateAndUpdateStaticHTML alike.    *)
(***************************************************************************)
Untyped(block) == block.type \notin {"single", "group"}

SameOutputs(b1, b2) ==
    /\ b1.output = b2.output
    /\ Len(b1.commands) = Len(b2.commands)
    /\ \A i \in 1..Len(b1.commands) :
          b1.commands[i].output = b2.commands[i].output

C26_UnknownTypeOnlyStamps ==
    /\ [](/\ \A b \in Blocks :
                Untyped(config.blocks[b]) =>
                    /\ pc[b] # "exec"
                    /\ local[b] = NoResult
                    /\ pc[b] \in {"unlock", "wait"} =>
                          /\ gen[b].stamp = tickNo[b]
                          /\ tickNo[b] >= 1
                          /\ config.blocks[b].last_updated > StartTime
                          /\ config.last_updated
                                >= config.blocks[b].last_updated
          /\ gpc = "exec" => ~Untyped(cfg.blocks[gblock])
          /\ html # <<>> =>
                \A b \in 1..Len(TreeOf(html).blocks) :
                    Untyped(TreeOf(html).blocks[b]) =>
                        /\ TreeOf(html).blocks[b].last_updated > StartTime
                        /\ TreeOf(html).last_updated
                              >= TreeOf(html).blocks[b].last_updated)
    /\ [][/\ \A b \in Blocks :
                (b \in DOMAIN pc' /\ Untyped(config.blocks[b])) =>
                    /\ SameOutputs(config'.blocks[b], config.blocks[b])
                    /\ (pc[b] = "lock" /\ pc'[b] # "lock") => pc'[b] = "stamp"
                    /\ (pc[b] = "stamp" /\ pc'[b] # "stamp") =>
                          /\ config'.blocks[b].last_updated \in TimeNow(now + 1)
                          /\ config'.last_updated = now'
          /\ \A b \in 1..Len(cfg.blocks) :
                (Len(cfg'.blocks) = Len(cfg.blocks) /\ Untyped(cfg.blocks[b]))
                    => /\ SameOutputs(cfg'.blocks[b], cfg.blocks[b])
                       /\ (gpc = "stamp" /\ gblock = b /\ gpc' # "stamp")
                             => cfg'.blocks[b].last_updated = now'
          /\ (gpc = "stampAll" /\ gpc' # "stampAll")
                => cfg'.last_updated = now']_vars

\* The scheduler of a block of type "table" has completed a tick: the
\* outputs of the file are still there and the timestamps are new.
C26_Witness ==
    /\ mainPc = "serving"
    /\ Len(config.blocks) = 1
    /\ config.blocks[1].type = "table"
    /\ pc[1] = "wait"
    /\ gen[1].stamp = 1
    /\ config.blocks[1].output = "old"
    /\ config.blocks[1].commands[1].output = "old"
    /\ config.blocks[1].last_updated > PastTime
    /\ config.last_updated > PastTime

====
